---- MODULE Spec2Model ----
(***************************************************************************)
(* Order-fulfilment saga of the mini e-commerce backend:                   *)
(*   order_service   create_order / delete_order / consume_stock_events    *)
(*   product_service consume_order_placed_events / deduct-stock / CRUD     *)
(* joined by the direct exchange "ecomm_events".                           *)
(*                                                                         *)
(* Spec      one instance of each service.  Inside one instance a handler  *)
(*           runs on the event loop and is only suspended at an await, so  *)
(*           a block of synchronous database calls is one step.            *)
(* SpecConc  two deduction executions on the shared product table whose    *)
(*           SELECT / UPDATE / COMMIT statements interleave (two product   *)
(*           service instances), under READ COMMITTED with row locks.      *)
(***************************************************************************)
EXTENDS Integers, Sequences, FiniteSets, TLC

\* ------------------------------------------------------------------ bounds
NumProducts == 2
MaxStock == 2
MaxQty == 2
MaxItems == 2
MaxRequests == 1
MaxRedeliver == 1
MaxPrice == 12
MaxAlertStock == 6
MaxQueue == 2
MaxUsers == 1
MaxSaga == 2
UnitPrice == 1000

\* ------------------------------------------------------- program constants
NoValue == 0 - 1

\* product_service: stock under which a deduction logs the low-stock alert
RESTOCK_THRESHOLD == 5

\* connect_to_rabbitmq (both services)
max_retries == 10
retry_delay_seconds == 5

OrderPlacedKey == "order.placed"
StockDeductedKey == "product.stock.deducted"
StockDeductionFailedKey == "product.stock.deduction.failed"
RoutingKeys == {OrderPlacedKey, StockDeductedKey, StockDeductionFailedKey}

Services == {"order", "product"}

ProductIds == 1..NumProducts
Quantities == 1..MaxQty
Stocks == 0..MaxStock
ReqIds == 1..MaxRequests

\* an item schema without the lower bound on quantity
ItemSetUnvalidated == [product_id : ProductIds, quantity : Quantities \cup {-1}]

\* OrderItemCreate: product_id >= 1, quantity >= 1
ItemSet == [product_id : ProductIds, quantity : Quantities]
\* OrderCreate.items as the handler can receive it (the empty list included)
ItemLists == UNION {[1..n -> ItemSet] : n \in 0..MaxItems}
\* OrderBase.status: any string up to 50 characters; two representatives
ReqStatuses == {"pending", "shipped"}
\* OrderBase.user_id >= 1
UserIds == 1..MaxUsers
\* OrderBase.shipping_address: absent (None), the empty string, or a text;
\* the customer record's shipping_address likewise
Null == "null"
ReqAddresses == {Null, "", "12 Request Road"}
CustAddresses == {Null, "", "7 Customer Street"}
\* outcome of the customer lookup of create_order
LookupOutcomes == {"200", "404", "http_error", "request_error", "exception"}

VARIABLES
    started,            \* service -> startup_event has run
    rabbitmq_exchange,  \* service -> the module-level exchange handle is set
    bound,              \* routing keys that have a queue bound on the exchange
    queue,              \* routing key -> messages ready in the bound queue
    stock_quantity,     \* product table: product_id -> committed stock_quantity
    next_product_id,    \* product table autoincrement
    orders,             \* order table: order_id -> row
    order_items,        \* order item table: set of rows
    next_order_id,      \* order table autoincrement
    next_item_id,       \* order item table autoincrement
    requests,           \* create_order calls: request -> handler position and answer
    worker,             \* consume_order_placed_events: position in the handler
    reconciled,         \* consume_stock_events: what the last process_message call logged
    redelivered,        \* number of deliveries whose acknowledgement was lost
    committed_ids,      \* history: order ids whose create_order commit succeeded
    conc,               \* SpecConc: the two interleaving deduction executions
    amounts,            \* SpecTotals: the amounts create_order computes and stores
    connecting,         \* SpecConnect: service -> position in connect_to_rabbitmq
    deduct_answer,      \* SpecFallback: what the last deduct-stock call answered
    sync,               \* SpecFallback: order creation in synchronous mode
    db_init,            \* SpecConnect: service -> position in the database loop
    ledger,             \* history: the stock at the start and the deductions committed
    patch_answer        \* what the last update_order_status call answered

vars == <<started, rabbitmq_exchange, bound, queue, stock_quantity, next_product_id,
          orders, order_items, next_order_id, next_item_id, requests, worker,
          reconciled, redelivered, committed_ids, conc, amounts, connecting,
                   deduct_answer, sync, db_init, ledger, patch_answer>>

brokerVars == <<bound, queue>>
productVars == <<stock_quantity, next_product_id>>
orderVars == <<orders, order_items, next_order_id, next_item_id, committed_ids>>

\* ----------------------------------------------------------------- helpers
EmptyFn == [x \in {} |-> 0]

Range(s) == {s[i] : i \in DOMAIN s}

\* rows of one order in order_item_id order, as (product_id, quantity) pairs
RECURSIVE RowsToSeq(_)
RowsToSeq(rows) ==
    IF rows = {} THEN <<>>
    ELSE LET first == CHOOSE r \in rows : \A r2 \in rows : r.order_item_id <= r2.order_item_id
         IN <<[product_id |-> first.product_id, quantity |-> first.quantity]>>
            \o RowsToSeq(rows \ {first})

ItemsOf(oid, table) == RowsToSeq({r \in table : r.order_id = oid})

\* total quantity of product p over a list of items
RECURSIVE QtyOf(_, _)
QtyOf(items, p) ==
    IF items = <<>> THEN 0
    ELSE (IF Head(items).product_id = p THEN Head(items).quantity ELSE 0)
         + QtyOf(Tail(items), p)

\* ------------------------------------------------------------------ broker
\* exchange.publish on a direct exchange: the message goes to the queue bound
\* to its routing key; with no queue bound it is dropped by the broker.
Route(q, b, key, msg) ==
    IF key \in b THEN [q EXCEPT ![key] = Append(@, msg)] ELSE q

\* publish_event: no handle -> return; publish raises -> logged, return.
PublishEvent(q, b, handle, brokerOk, key, msg) ==
    IF ~handle THEN q
    ELSE IF ~brokerOk THEN q
    ELSE Route(q, b, key, msg)

\* ------------------------------------------------- inventory deduction core
\* A database session: the identity map of loaded Product objects with their
\* (possibly modified) stock_quantity, and the handler's success flag and
\* failed_products list.
NewSession == [loaded |-> EmptyFn, success |-> TRUE, failed_products |-> <<>>]

Detail(pid, reason, available) ==
    [product_id |-> pid, reason |-> reason, available_stock |-> available]

\* an item loop whose stock check also turns down a quantity equal to the stock
DeductItemStrict(item, db, s) ==
    LET pid == item.product_id
        quantity == item.quantity
    IN IF pid = 0 \/ quantity = 0
       THEN [s EXCEPT !.success = FALSE]
       ELSE IF pid \notin DOMAIN s.loaded /\ pid \notin DOMAIN db
       THEN [s EXCEPT !.success = FALSE,
                      !.failed_products =
                          Append(@, Detail(pid, "product_not_found", NoValue))]
       ELSE LET cur == IF pid \in DOMAIN s.loaded THEN s.loaded[pid] ELSE db[pid]
            IN IF cur <= quantity
               THEN [s EXCEPT !.success = FALSE,
                              !.loaded = (pid :> cur) @@ @,
                              !.failed_products =
                                  Append(@, Detail(pid, "insufficient_stock", cur))]
               ELSE [s EXCEPT !.loaded = (pid :> (cur - quantity)) @@ @]

\* an item loop that subtracts before it checks, and reports what is left
DeductItemLateCheck(item, db, s) ==
    LET pid == item.product_id
        quantity == item.quantity
    IN IF pid = 0 \/ quantity = 0
       THEN [s EXCEPT !.success = FALSE]
       ELSE IF pid \notin DOMAIN s.loaded /\ pid \notin DOMAIN db
       THEN [s EXCEPT !.success = FALSE,
                      !.failed_products =
                          Append(@, Detail(pid, "product_not_found", NoValue))]
       ELSE LET cur == IF pid \in DOMAIN s.loaded THEN s.loaded[pid] ELSE db[pid]
            IN IF cur - quantity < 0
               THEN [s EXCEPT !.success = FALSE,
                              !.loaded = (pid :> (cur - quantity)) @@ @,
                              !.failed_products =
                                  Append(@, Detail(pid, "insufficient_stock",
                                                   cur - quantity))]
               ELSE [s EXCEPT !.loaded = (pid :> (cur - quantity)) @@ @]

\* an item loop that reads every product from the table again, without the
\* session's identity map
DeductItemStale(item, db, s) ==
    LET pid == item.product_id
        quantity == item.quantity
    IN IF pid = 0 \/ quantity = 0
       THEN [s EXCEPT !.success = FALSE]
       ELSE IF pid \notin DOMAIN db
       THEN [s EXCEPT !.success = FALSE,
                      !.failed_products =
                          Append(@, Detail(pid, "product_not_found", NoValue))]
       ELSE IF db[pid] < quantity
       THEN [s EXCEPT !.success = FALSE,
                      !.loaded = (pid :> db[pid]) @@ @,
                      !.failed_products =
                          Append(@, Detail(pid, "insufficient_stock", db[pid]))]
       ELSE [s EXCEPT !.loaded = (pid :> (db[pid] - quantity)) @@ @]

\* One iteration of the item loop of consume_order_placed_events against the
\* committed table db: invalid item, product missing, insufficient stock, or
\* the in-session decrement.  An object already in the identity map keeps its
\* session value.
DeductItem(item, db, s) ==
    LET pid == item.product_id
        quantity == item.quantity
    IN IF pid = 0 \/ quantity = 0
       THEN [s EXCEPT !.success = FALSE]
       ELSE IF pid \notin DOMAIN s.loaded /\ pid \notin DOMAIN db
       THEN [s EXCEPT !.success = FALSE,
                      !.failed_products =
                          Append(@, Detail(pid, "product_not_found", NoValue))]
       ELSE LET cur == IF pid \in DOMAIN s.loaded THEN s.loaded[pid] ELSE db[pid]
            IN IF cur < quantity
               THEN [s EXCEPT !.success = FALSE,
                              !.loaded = (pid :> cur) @@ @,
                              !.failed_products =
                                  Append(@, Detail(pid, "insufficient_stock", cur))]
               ELSE [s EXCEPT !.loaded = (pid :> (cur - quantity)) @@ @]

\* an item loop without break: every item is examined and every failure
\* reported
RECURSIVE DeductLoopAll(_, _, _, _)
DeductLoopAll(items, i, db, s) ==
    IF i > Len(items) THEN s
    ELSE DeductLoopAll(items, i + 1, db, DeductItem(items[i], db, s))

\* for item in order_items: ... break on the first failure
RECURSIVE DeductLoop(_, _, _, _)
DeductLoop(items, i, db, s) ==
    IF i > Len(items) \/ ~s.success THEN s
    ELSE DeductLoop(items, i + 1, db, DeductItem(items[i], db, s))

\* session.commit(): the session's values of the loaded rows become the
\* committed ones (UPDATE ... SET stock_quantity = <session value>).
SessionCommit(db, s) ==
    [p \in DOMAIN db |-> IF p \in DOMAIN s.loaded THEN s.loaded[p] ELSE db[p]]

\* a rollback that keeps the decrements made before the failing item
SessionRollbackKeeps(db, s) ==
    [p \in DOMAIN db |-> IF p \in DOMAIN s.loaded THEN s.loaded[p] ELSE db[p]]

\* session.rollback(): nothing of the session reaches the table.
SessionRollback(db, s) == db

DatabaseErrorDetails == <<Detail(NoValue, "database_error", NoValue)>>

ResultBody(oid, st, details) ==
    [order_id |-> oid, status |-> st, details |-> details]

\* a handler with a ledger: an order whose success event is already out (in
\* the queue or applied to the order) is answered again without a deduction
WorkerTransactionOnce(msg, db, dbError) ==
    LET s == DeductLoop(msg.items, 1, db, NewSession)
        seen == \/ \E i \in DOMAIN queue[StockDeductedKey] :
                      queue[StockDeductedKey][i].order_id = msg.order_id
                \/ /\ msg.order_id \in DOMAIN orders
                   /\ orders[msg.order_id].status = "confirmed"
    IN IF dbError
       THEN [stock |-> SessionRollback(db, s),
             key |-> StockDeductionFailedKey,
             body |-> ResultBody(msg.order_id, "failed", DatabaseErrorDetails)]
       ELSE IF seen
       THEN [stock |-> db,
             key |-> StockDeductedKey,
             body |-> ResultBody(msg.order_id, "success", <<>>)]
       ELSE IF s.success
       THEN [stock |-> SessionCommit(db, s),
             key |-> StockDeductedKey,
             body |-> ResultBody(msg.order_id, "success", <<>>)]
       ELSE [stock |-> SessionRollback(db, s),
             key |-> StockDeductionFailedKey,
             body |-> ResultBody(msg.order_id, "failed", s.failed_products)]

\* a worker that publishes its results under keys without the service prefix
WorkerTransactionShortKeys(msg, db, dbError) ==
    LET s == DeductLoop(msg.items, 1, db, NewSession)
    IN IF ~dbError /\ s.success
       THEN [stock |-> SessionCommit(db, s),
             key |-> "stock.deducted",
             body |-> ResultBody(msg.order_id, "success", <<>>)]
       ELSE [stock |-> SessionRollback(db, s),
             key |-> "stock.deduction.failed",
             body |-> ResultBody(msg.order_id, "failed",
                        IF dbError THEN DatabaseErrorDetails ELSE s.failed_products)]

\* a handler whose error after the commit still ends in the failure event
WorkerTransactionCommitThenFail(msg, db, dbError) ==
    LET s == DeductLoop(msg.items, 1, db, NewSession)
    IN IF s.success /\ ~dbError
       THEN [stock |-> SessionCommit(db, s),
             key |-> StockDeductedKey,
             body |-> ResultBody(msg.order_id, "success", <<>>)]
       ELSE [stock |-> IF s.success THEN SessionCommit(db, s)
                       ELSE SessionRollback(db, s),
             key |-> StockDeductionFailedKey,
             body |-> ResultBody(msg.order_id, "failed",
                        IF dbError THEN DatabaseErrorDetails ELSE s.failed_products)]

\* The transaction of one order.placed message (try / except / finally of
\* the handler): the table afterwards and the result event to publish.
WorkerTransaction(msg, db, dbError) ==
    LET s == DeductLoop(msg.items, 1, db, NewSession)
    IN IF dbError
       THEN [stock |-> SessionRollback(db, s),
             key |-> StockDeductionFailedKey,
             body |-> ResultBody(msg.order_id, "failed", DatabaseErrorDetails)]
       ELSE IF s.success
       THEN [stock |-> SessionCommit(db, s),
             key |-> StockDeductedKey,
             body |-> ResultBody(msg.order_id, "success", <<>>)]
       ELSE [stock |-> SessionRollback(db, s),
             key |-> StockDeductionFailedKey,
             body |-> ResultBody(msg.order_id, "failed", s.failed_products)]

\* The low-stock alerts the item loop logs, in order: one after each
\* in-session decrement that leaves the product under RESTOCK_THRESHOLD.
RECURSIVE AlertLoop(_, _, _, _, _)
AlertLoop(items, i, db, s, alerts) ==
    IF i > Len(items) \/ ~s.success THEN alerts
    ELSE LET s2 == DeductItem(items[i], db, s)
             pid == items[i].product_id
         IN AlertLoop(items, i + 1, db, s2,
                IF s2.success /\ s2.loaded[pid] < RESTOCK_THRESHOLD
                THEN Append(alerts, [product_id |-> pid,
                                     stock_quantity |-> s2.loaded[pid]])
                ELSE alerts)

LowStockAlerts(items, db) == AlertLoop(items, 1, db, NewSession, <<>>)

\* ------------------------------------------------------------ initial state
NoMsg == [order_id |-> 0, items |-> <<>>, status |-> ""]
NoBody == ResultBody(0, "", <<>>)
\* A delivery whose body json.loads rejects, or that decodes to something
\* other than an object (.get raises): it has no field to read; the record
\* only keeps the shape of the queue's messages.
NotJsonMsg == [order_id |-> 0, items |-> <<>>, status |-> "not json"]
NotJsonBody == ResultBody(0, "not json", <<>>)
IdleWorker == [pc |-> "idle", msg |-> NoMsg, key |-> "", body |-> NoBody,
               alerts |-> <<>>]
NewRequest == [pc |-> "new", code |-> 0, lookup |-> "", order_id |-> 0,
               req_items |-> <<>>, req_status |-> "", req_address |-> Null,
               cust_address |-> Null, event |-> NoMsg]
NothingReconciled == [key |-> "", order_id |-> 0, outcome |-> ""]
\* no ledger is kept
NoLedger == [on |-> FALSE, initial |-> EmptyFn, deducted |-> <<>>]

\* no update_order_status call has been answered yet
NoPatch == [order_id |-> 0, status |-> "", code |-> 0, db_ok |-> TRUE]

\* no deduct-stock call has been answered yet
NoAnswer == [product_id |-> 0, quantity |-> 0, code |-> 0, stock_quantity |-> NoValue]
\* no order is being created in synchronous mode
NoSync == [pc |-> "new", items |-> <<>>, idx |-> 0, deducted |-> <<>>,
           compensated |-> <<>>, code |-> 0, order_id |-> 0]

Init ==
    /\ started = [s \in Services |-> FALSE]
    /\ rabbitmq_exchange = [s \in Services |-> FALSE]
    /\ bound = {}
    /\ queue = [k \in RoutingKeys |-> <<>>]
    /\ stock_quantity = EmptyFn
    /\ next_product_id = 1
    /\ orders = EmptyFn
    /\ order_items = {}
    /\ next_order_id = 1
    /\ next_item_id = 1
    /\ requests = [r \in ReqIds |-> NewRequest]
    /\ worker = IdleWorker
    /\ reconciled = NothingReconciled
    /\ redelivered = 0
    /\ committed_ids = {}
    /\ conc = EmptyFn
    /\ amounts = EmptyFn
    /\ connecting = EmptyFn
    /\ deduct_answer = NoAnswer
    /\ sync = NoSync
    /\ db_init = EmptyFn
    /\ ledger = NoLedger
    /\ patch_answer = NoPatch

\* ------------------------------------------------------------------ startup
\* Queues each service's consumer declares and binds once connected.
ConsumerKeys(svc) ==
    IF svc = "product" THEN {OrderPlacedKey}
    ELSE {StockDeductedKey, StockDeductionFailedKey}

\* startup_event: connect_to_rabbitmq() answers connected; only then is the
\* consumer task created.  The service serves requests either way.
Startup(svc) ==
    /\ ~started[svc]
    /\ \E connected \in BOOLEAN :
        /\ started' = [started EXCEPT ![svc] = TRUE]
        /\ rabbitmq_exchange' = [rabbitmq_exchange EXCEPT ![svc] = connected]
        /\ bound' = IF connected THEN bound \cup ConsumerKeys(svc) ELSE bound
    /\ UNCHANGED <<queue, productVars, orderVars, requests, worker, reconciled,
                   redelivered, conc, amounts, connecting,
                   deduct_answer, sync, db_init, ledger, patch_answer>>

\* ------------------------------------------------------- product endpoints
\* create_product: ProductCreate.stock_quantity >= 0
CreateProduct ==
    /\ started["product"]
    /\ next_product_id <= NumProducts
    /\ \E stock \in Stocks :
        stock_quantity' = (next_product_id :> stock) @@ stock_quantity
    /\ next_product_id' = next_product_id + 1
    /\ UNCHANGED <<started, rabbitmq_exchange, brokerVars, orderVars, requests,
                   worker, reconciled, redelivered, conc, amounts,
                   connecting,
                   deduct_answer, sync, db_init, ledger, patch_answer>>

\* update_product: ProductUpdate.stock_quantity >= 0 when set
UpdateProduct ==
    /\ started["product"]
    /\ \E p \in DOMAIN stock_quantity, stock \in Stocks :
        stock_quantity' = [stock_quantity EXCEPT ![p] = stock]
    /\ UNCHANGED <<started, rabbitmq_exchange, brokerVars, next_product_id, orderVars,
                   requests, worker, reconciled, redelivered, conc, amounts,
                   connecting,
                   deduct_answer, sync, db_init, ledger, patch_answer>>

\* a deduct-stock that skips the stock check
DeductStockUnchecked(db, p, q) ==
    IF p \notin DOMAIN db THEN [code |-> 404, stock |-> db]
    ELSE [code |-> 200, stock |-> [db EXCEPT ![p] = @ - q]]

\* a deduct-stock that also turns down a quantity equal to the stock
DeductStockResultOffByOne(db, p, q) ==
    IF p \notin DOMAIN db THEN [code |-> 404, stock |-> db]
    ELSE IF db[p] <= q THEN [code |-> 400, stock |-> db]
    ELSE [code |-> 200, stock |-> [db EXCEPT ![p] = @ - q]]

\* deduct_product_stock_sync: 404 when absent, 400 when stock is short,
\* otherwise stock_quantity -= quantity_to_deduct and commit.
DeductStockResult(db, p, q) ==
    IF p \notin DOMAIN db THEN [code |-> 404, stock |-> db]
    ELSE IF db[p] < q THEN [code |-> 400, stock |-> db]
    ELSE [code |-> 200, stock |-> [db EXCEPT ![p] = @ - q]]

\* a deduct-stock that answers 200 and leaves its commit to a later step
DeductStockAnswerDeferred(db, p, q, commitOk) ==
    LET res == DeductStockResult(db, p, q)
    IN [code |-> res.code, stock |-> db]

\* the same with the commit that can raise: rollback, 500
DeductStockAnswer(db, p, q, commitOk) ==
    LET res == DeductStockResult(db, p, q)
    IN IF res.code = 200 /\ ~commitOk THEN [code |-> 500, stock |-> db] ELSE res

\* the response: the status code and, on 200, the refreshed product
DeductResponse(p, q, ans) ==
    [product_id |-> p, quantity |-> q, code |-> ans.code,
     stock_quantity |-> IF ans.code = 200 THEN ans.stock[p] ELSE NoValue]

DeductStock ==
    /\ started["product"]
    /\ \E p \in ProductIds, q \in Quantities :
        stock_quantity' = DeductStockResult(stock_quantity, p, q).stock
    /\ UNCHANGED <<started, rabbitmq_exchange, brokerVars, next_product_id, orderVars,
                   requests, worker, reconciled, redelivered, conc, amounts,
                   connecting,
                   deduct_answer, sync, db_init, ledger, patch_answer>>

\* -------------------------------------------- inventory deduction worker
\* the ledger after the handling of msg ended with the event key: a kept
\* ledger records the message of every committed deduction
LedgerAfter(l, msg, key) ==
    IF l.on /\ msg # NotJsonMsg /\ key = StockDeductedKey
    THEN [l EXCEPT !.deducted = Append(@, msg)]
    ELSE l

\* a worker consuming through a callback: a new delivery is started while
\* the previous one is suspended in its publish
WorkerProcessCallback ==
    /\ started["product"] /\ rabbitmq_exchange["product"]
    /\ worker.pc \in {"idle", "publish"}
    /\ queue[OrderPlacedKey] # <<>>
    /\ \E dbError \in BOOLEAN :
        LET msg == Head(queue[OrderPlacedKey])
            t == WorkerTransaction(msg, stock_quantity, dbError)
        IN /\ stock_quantity' = t.stock
           /\ worker' = [pc |-> "publish", msg |-> msg, key |-> t.key,
                         body |-> t.body, alerts |-> <<>>]
           /\ ledger' = LedgerAfter(ledger, msg, t.key)
    /\ queue' = [queue EXCEPT ![OrderPlacedKey] = Tail(@)]
    /\ UNCHANGED <<started, rabbitmq_exchange, bound, next_product_id, orderVars,
                   requests, reconciled, redelivered, conc, amounts, connecting,
                   deduct_answer, sync, db_init, patch_answer>>

\* async for message in queue_iter: the transaction of the message, run
\* without suspension up to the await of publish_event; a body that does not
\* decode is logged and nothing is published for it.  A database error is
\* raised by some statement of the transaction: the alerts logged before it
\* are a prefix (n entries) of those of the loop.
WorkerProcess ==
    /\ started["product"] /\ rabbitmq_exchange["product"]
    /\ worker.pc = "idle"
    /\ queue[OrderPlacedKey] # <<>>
    /\ \E dbError \in BOOLEAN, n \in 0..MaxItems :
        LET msg == Head(queue[OrderPlacedKey])
            t == WorkerTransaction(msg, stock_quantity, dbError)
            logged == LowStockAlerts(msg.items, stock_quantity)
        IN /\ n <= Len(logged)
           /\ ~dbError => n = Len(logged)
           /\ IF msg = NotJsonMsg
              THEN /\ stock_quantity' = stock_quantity
                   /\ worker' = [IdleWorker EXCEPT !.pc = "ack", !.msg = msg]
              ELSE /\ stock_quantity' = t.stock
                   /\ worker' = [pc |-> "publish", msg |-> msg, key |-> t.key,
                                 body |-> t.body, alerts |-> SubSeq(logged, 1, n)]
           /\ ledger' = LedgerAfter(ledger, msg, t.key)
    /\ queue' = [queue EXCEPT ![OrderPlacedKey] = Tail(@)]
    /\ UNCHANGED <<started, rabbitmq_exchange, bound, next_product_id, orderVars,
                   requests, reconciled, redelivered, conc, amounts,
                   connecting,
                   deduct_answer, sync, db_init, patch_answer>>

\* a worker that a failed publish throws out of the handler
WorkerPublishAborts ==
    /\ worker.pc = "publish"
    /\ \E brokerOk \in BOOLEAN :
        IF rabbitmq_exchange["product"] /\ brokerOk
        THEN /\ queue' = Route(queue, bound, worker.key, worker.body)
             /\ worker' = [worker EXCEPT !.pc = "ack"]
        ELSE /\ queue' = queue
             /\ worker' = IdleWorker
    /\ UNCHANGED <<started, rabbitmq_exchange, bound, productVars, orderVars,
                   requests, reconciled, redelivered, conc, amounts, connecting,
                   deduct_answer, sync, db_init, ledger, patch_answer>>

\* await publish_event(<result key>, <result body>)
WorkerPublish ==
    /\ worker.pc = "publish"
    /\ \E brokerOk \in BOOLEAN :
        queue' = PublishEvent(queue, bound, rabbitmq_exchange["product"], brokerOk,
                              worker.key, worker.body)
    /\ worker' = [worker EXCEPT !.pc = "ack"]
    /\ UNCHANGED <<started, rabbitmq_exchange, bound, productVars, orderVars,
                   requests, reconciled, redelivered, conc, amounts,
                   connecting,
                   deduct_answer, sync, db_init, ledger, patch_answer>>

\* a consumer whose loop a failed handling ends: after a database error or an
\* undecodable body the message is acknowledged and the task returns
WorkerAckStopsOnError ==
    /\ worker.pc = "ack"
    /\ \E acked \in BOOLEAN :
        /\ ~acked => redelivered < MaxRedeliver
        /\ queue' = IF acked THEN queue
                    ELSE [queue EXCEPT ![OrderPlacedKey] = <<worker.msg>> \o @]
        /\ redelivered' = IF acked THEN redelivered ELSE redelivered + 1
    /\ worker' = IF worker.body.details = DatabaseErrorDetails \/ worker.msg = NotJsonMsg
                 THEN [IdleWorker EXCEPT !.pc = "stopped"]
                 ELSE IdleWorker
    /\ UNCHANGED <<started, rabbitmq_exchange, bound, productVars, orderVars,
                   requests, reconciled, conc, amounts, connecting,
                   deduct_answer, sync, db_init, ledger, patch_answer>>

\* a worker whose handler lets a database error out of the message context:
\* the broker client rejects the message and it goes back to its queue
WorkerAckRequeueOnError ==
    /\ worker.pc = "ack"
    /\ \E acked \in BOOLEAN :
        /\ ~acked => redelivered < MaxRedeliver
        /\ queue' = IF acked /\ worker.body.details # DatabaseErrorDetails THEN queue
                    ELSE [queue EXCEPT ![OrderPlacedKey] = <<worker.msg>> \o @]
        /\ redelivered' = IF acked THEN redelivered ELSE redelivered + 1
    /\ worker' = IdleWorker
    /\ UNCHANGED <<started, rabbitmq_exchange, bound, productVars, orderVars,
                   requests, reconciled, conc, amounts, connecting,
                   deduct_answer, sync, db_init, ledger, patch_answer>>

\* leaving "async with message.process()": the message is acknowledged; when
\* the acknowledgement does not reach the broker the message is requeued.
WorkerAck ==
    /\ worker.pc = "ack"
    /\ \E acked \in BOOLEAN :
        /\ ~acked => redelivered < MaxRedeliver
        /\ queue' = IF acked THEN queue
                    ELSE [queue EXCEPT ![OrderPlacedKey] = <<worker.msg>> \o @]
        /\ redelivered' = IF acked THEN redelivered ELSE redelivered + 1
    /\ worker' = IdleWorker
    /\ UNCHANGED <<started, rabbitmq_exchange, bound, productVars, orderVars,
                   requests, reconciled, conc, amounts, connecting,
                   deduct_answer, sync, db_init, ledger, patch_answer>>

\* ------------------------------------------------------------ order intake
\* a lookup handling that lets a 404 through
RejectCodeLenient(lookup) ==
    IF lookup = "http_error" THEN 500
    ELSE IF lookup = "request_error" THEN 503
    ELSE IF lookup = "exception" THEN 500
    ELSE 0

\* a lookup handling that answers an unreachable customer service like any
\* other failure
RejectCodeNoRetry(lookup) ==
    IF lookup = "404" THEN 400
    ELSE IF lookup = "http_error" THEN 500
    ELSE IF lookup = "request_error" THEN 500
    ELSE IF lookup = "exception" THEN 500
    ELSE 0

\* HTTP status create_order answers when the customer lookup does not let the
\* request through; 0 when it does.
RejectCode(lookup) ==
    IF lookup = "404" THEN 400
    ELSE IF lookup = "http_error" THEN 500
    ELSE IF lookup = "request_error" THEN 503
    ELSE IF lookup = "exception" THEN 500
    ELSE 0

\* what a Numeric(10, 2) column keeps of an amount: two decimal places,
\* rounded half away from zero (amounts are positive)
Numeric2(x) == ((x + 5) \div 10) * 10

\* sum(Decimal(str(item.quantity)) * Decimal(str(item.price_at_purchase)) ...)
RECURSIVE TotalAmount(_)
TotalAmount(items) ==
    IF items = <<>> THEN 0
    ELSE Head(items).quantity * Head(items).price_at_purchase
         + TotalAmount(Tail(items))

\* the total of a request whose items all carry the price UnitPrice, as the
\* total_amount column keeps it
OrderTotal(items) ==
    Numeric2(TotalAmount([i \in DOMAIN items |->
                 [quantity |-> items[i].quantity, price_at_purchase |-> UnitPrice]]))

\* Python truth value of an optional string
Falsy(x) == x \in {Null, ""}

\* an address rule that lets the customer's address win whenever there is one
ShippingAddressCustomerFirst(req_address, cust_address) ==
    IF ~Falsy(cust_address) THEN cust_address ELSE req_address

\* if not order.shipping_address and customer_data.get("shipping_address"):
\*     order.shipping_address = customer_data["shipping_address"]
ShippingAddress(req_address, cust_address) ==
    IF Falsy(req_address) /\ ~Falsy(cust_address) THEN cust_address ELSE req_address

\* an Order row that takes the status of the request
NewOrderRowFromRequest(order, total_amount) ==
    [user_id |-> order.user_id, shipping_address |-> order.shipping_address,
     total_amount |-> total_amount, status |-> order.status]

\* the Order row create_order adds from the request (its shipping address
\* already settled): status is the literal "pending"
NewOrderRow(order, total_amount) ==
    [user_id |-> order.user_id, shipping_address |-> order.shipping_address,
     total_amount |-> total_amount, status |-> "pending"]

\* the OrderItem rows create_order adds for the request's items
NewItemRows(oid, items, firstId) ==
    {[order_item_id |-> firstId + i - 1, order_id |-> oid,
      product_id |-> items[i].product_id, quantity |-> items[i].quantity] :
        i \in DOMAIN items}

\* an event that misses the last item of the order
OrderEventDataShort(oid, otable, itable) ==
    [order_id |-> oid,
     items |-> SubSeq(ItemsOf(oid, itable), 1, Len(ItemsOf(oid, itable)) - 1),
     status |-> otable[oid].status]

\* the order.placed payload built from the refreshed db_order
OrderEventData(oid, otable, itable) ==
    [order_id |-> oid, items |-> ItemsOf(oid, itable), status |-> otable[oid].status]

\* an answer that turns a failed publish into an error
AnswerAfterPublishStrict(req, published) ==
    [NewRequest EXCEPT !.pc = "done", !.code = IF published THEN 201 ELSE 500,
                       !.lookup = req.lookup, !.order_id = req.order_id]

\* an intake that answers 201 and keeps the event to publish it again when
\* the publish did not go through
AnswerAfterPublishRepublish(req, published) ==
    IF published
    THEN [NewRequest EXCEPT !.pc = "done", !.code = 201, !.lookup = req.lookup,
                            !.order_id = req.order_id]
    ELSE [req EXCEPT !.code = 201]

\* what create_order answers once publish_event has returned: db_order (201),
\* whether or not the event went out
AnswerAfterPublish(req, published) ==
    [NewRequest EXCEPT !.pc = "done", !.code = 201, !.lookup = req.lookup,
                       !.order_id = req.order_id]

\* create_order with an empty item list: 400 before the customer lookup.
CreateOrderEmpty(r) ==
    /\ started["order"]
    /\ requests[r].pc = "new"
    /\ requests' = [requests EXCEPT ![r] = [@ EXCEPT !.pc = "done", !.code = 400]]
    /\ UNCHANGED <<started, rabbitmq_exchange, brokerVars, productVars, orderVars,
                   worker, reconciled, redelivered, conc, amounts,
                   connecting,
                   deduct_answer, sync, db_init, ledger, patch_answer>>

\* a create_order that goes on to publish the event of an order whose commit
\* failed
CreateOrderWritePublishFirst(r) ==
    /\ started["order"]
    /\ requests[r].pc = "new"
    /\ \E items \in ItemLists \ {<<>>}, lookup \in LookupOutcomes, st \in ReqStatuses,
          db \in {"ok", "commit_fails", "refresh_fails"}, user \in UserIds :
        LET addr == requests[r].req_address
            cust == requests[r].cust_address
        IN
        IF RejectCode(lookup) # 0
        THEN /\ requests' = [requests EXCEPT ![r] =
                    [@ EXCEPT !.pc = "done", !.code = RejectCode(lookup),
                              !.lookup = lookup]]
             /\ UNCHANGED orderVars
        ELSE LET oid == next_order_id
                 order == [user_id |-> user, status |-> st,
                           shipping_address |-> ShippingAddress(addr, cust)]
                 otable == (oid :> NewOrderRow(order, OrderTotal(items))) @@ orders
                 itable == order_items \cup NewItemRows(oid, items, next_item_id)
             IN /\ IF db = "commit_fails"
                   THEN /\ UNCHANGED <<orders, order_items, committed_ids>>
                        /\ requests' = [requests EXCEPT ![r] =
                               [pc |-> "committed", code |-> 0, lookup |-> lookup,
                                order_id |-> oid,
                                req_items |-> items, req_status |-> st,
                                req_address |-> addr, cust_address |-> cust,
                                event |-> OrderEventData(oid, otable, itable)]]
                   ELSE /\ orders' = otable
                        /\ order_items' = itable
                        /\ committed_ids' = committed_ids \cup {oid}
                        /\ requests' = [requests EXCEPT ![r] =
                               IF db = "refresh_fails"
                               THEN [@ EXCEPT !.pc = "done", !.code = 500,
                                              !.lookup = lookup, !.order_id = oid]
                               ELSE [pc |-> "committed", code |-> 0, lookup |-> lookup,
                                     order_id |-> oid,
                                     req_items |-> items, req_status |-> st,
                                     req_address |-> addr, cust_address |-> cust,
                                     event |-> OrderEventData(oid, otable, itable)]]
                /\ next_order_id' = next_order_id + 1
                /\ next_item_id' = next_item_id + Len(items)
    /\ UNCHANGED <<started, rabbitmq_exchange, brokerVars, productVars, worker,
                   reconciled, redelivered, conc, amounts,
                   connecting,
                   deduct_answer, sync, db_init, ledger, patch_answer>>

\* create_order from the answer of the customer lookup on: a rejection, or
\* step 2 (add the order, flush, add the items, commit, refresh, build the
\* event).  db says how the database calls of step 2 end.  The request's
\* shipping_address and the customer record's are those the waiting request
\* r came with (requests[r].req_address, requests[r].cust_address).
CreateOrderWrite(r) ==
    /\ started["order"]
    /\ requests[r].pc = "new"
    /\ \E items \in ItemLists \ {<<>>}, lookup \in LookupOutcomes, st \in ReqStatuses,
          db \in {"ok", "commit_fails", "refresh_fails"}, user \in UserIds :
        LET addr == requests[r].req_address
            cust == requests[r].cust_address
        IN
        IF RejectCode(lookup) # 0
        THEN /\ requests' = [requests EXCEPT ![r] =
                    [@ EXCEPT !.pc = "done", !.code = RejectCode(lookup),
                              !.lookup = lookup]]
             /\ UNCHANGED orderVars
        ELSE LET oid == next_order_id
                 order == [user_id |-> user, status |-> st,
                           shipping_address |-> ShippingAddress(addr, cust)]
                 otable == (oid :> NewOrderRow(order, OrderTotal(items))) @@ orders
                 itable == order_items \cup NewItemRows(oid, items, next_item_id)
             IN /\ IF db = "commit_fails"
                   THEN /\ UNCHANGED <<orders, order_items, committed_ids>>
                        /\ requests' = [requests EXCEPT ![r] =
                               [@ EXCEPT !.pc = "done", !.code = 500, !.lookup = lookup]]
                   ELSE /\ orders' = otable
                        /\ order_items' = itable
                        /\ committed_ids' = committed_ids \cup {oid}
                        /\ requests' = [requests EXCEPT ![r] =
                               IF db = "refresh_fails"
                               THEN [@ EXCEPT !.pc = "done", !.code = 500,
                                              !.lookup = lookup, !.order_id = oid]
                               ELSE [pc |-> "committed", code |-> 0, lookup |-> lookup,
                                     order_id |-> oid,
                                     req_items |-> items, req_status |-> st,
                                     req_address |-> addr, cust_address |-> cust,
                                     event |-> OrderEventData(oid, otable, itable)]]
                /\ next_order_id' = next_order_id + 1
                /\ next_item_id' = next_item_id + Len(items)
    /\ UNCHANGED <<started, rabbitmq_exchange, brokerVars, productVars, worker,
                   reconciled, redelivered, conc, amounts,
                   connecting,
                   deduct_answer, sync, db_init, ledger, patch_answer>>

\* create_order, step 3: await publish_event("order.placed", ...), then
\* return db_order.
CreateOrderPublish(r) ==
    /\ requests[r].pc = "committed"
    /\ \E brokerOk \in BOOLEAN :
        /\ queue' = PublishEvent(queue, bound, rabbitmq_exchange["order"], brokerOk,
                                 OrderPlacedKey, requests[r].event)
        /\ requests' = [requests EXCEPT ![r] =
               AnswerAfterPublish(requests[r], rabbitmq_exchange["order"] /\ brokerOk)]
    /\ UNCHANGED <<started, rabbitmq_exchange, bound, productVars, orderVars, worker,
                   reconciled, redelivered, conc, amounts,
                   connecting,
                   deduct_answer, sync, db_init, ledger, patch_answer>>

\* delete_order: the items go with the order (cascade="all, delete-orphan").
DeleteOrder ==
    /\ started["order"]
    /\ \E oid \in DOMAIN orders :
        /\ orders' = [o \in DOMAIN orders \ {oid} |-> orders[o]]
        /\ order_items' = {row \in order_items : row.order_id # oid}
    /\ UNCHANGED <<started, rabbitmq_exchange, brokerVars, productVars, next_order_id,
                   next_item_id, committed_ids, requests, worker, reconciled,
                   redelivered, conc, amounts,
                   connecting,
                   deduct_answer, sync, db_init, ledger, patch_answer>>

\* a Reconciler from before the "failed" status existed: a failure event
\* leaves the status as it is
ReconciledStatusConfirmOnly(key, cur) ==
    IF key = StockDeductedKey THEN "confirmed" ELSE cur

\* ------------------------------------------------- order status reconciler
\* the status process_message writes for a routing key; cur when it writes none
ReconciledStatus(key, cur) ==
    IF key = StockDeductedKey THEN "confirmed"
    ELSE IF key = StockDeductionFailedKey THEN "failed"
    ELSE cur

\* a handler that writes the status under the event's order id whether or not
\* the query found the order
ProcessMessageUpsert(key, body, otable, dbError) ==
    IF body.order_id = 0
    THEN [orders |-> otable, outcome |-> "no_order_id"]
    ELSE IF dbError
    THEN [orders |-> otable, outcome |-> "database_error"]
    ELSE IF key \notin {StockDeductedKey, StockDeductionFailedKey}
    THEN [orders |-> otable, outcome |-> "unknown_routing_key"]
    ELSE [orders |-> (body.order_id :> [status |-> ReconciledStatus(key, "pending")])
                        @@ otable,
          outcome |-> "updated"]

\* a handler with no branch for an unknown routing key: what is not a
\* success is written as a failure
ProcessMessageNoKeyCheck(key, body, otable, dbError) ==
    IF body.order_id = 0
    THEN [orders |-> otable, outcome |-> "no_order_id"]
    ELSE IF dbError
    THEN [orders |-> otable, outcome |-> "database_error"]
    ELSE IF body.order_id \notin DOMAIN otable
    THEN [orders |-> otable, outcome |-> "non_existent_order"]
    ELSE [orders |-> [otable EXCEPT ![body.order_id].status =
                         IF key = StockDeductedKey THEN "confirmed" ELSE "failed"],
          outcome |-> "updated"]

\* a Reconciler whose update is not filtered by the order id of the event
ProcessMessageNoFilter(key, body, otable, dbError) ==
    IF body = NotJsonBody
    THEN [orders |-> otable, outcome |-> "decode_error"]
    ELSE IF body.order_id = 0
    THEN [orders |-> otable, outcome |-> "no_order_id"]
    ELSE IF dbError
    THEN [orders |-> otable, outcome |-> "database_error"]
    ELSE IF body.order_id \notin DOMAIN otable
    THEN [orders |-> otable, outcome |-> "non_existent_order"]
    ELSE IF key \notin {StockDeductedKey, StockDeductionFailedKey}
    THEN [orders |-> otable, outcome |-> "unknown_routing_key"]
    ELSE [orders |-> [o \in DOMAIN otable |->
                        [otable[o] EXCEPT !.status = ReconciledStatus(key, @)]],
          outcome |-> "updated"]

\* process_message on one result event: the order table afterwards and what
\* the handler logged.
ProcessMessage(key, body, otable, dbError) ==
    IF body = NotJsonBody
    THEN [orders |-> otable, outcome |-> "decode_error"]
    ELSE IF body.order_id = 0
    THEN [orders |-> otable, outcome |-> "no_order_id"]
    ELSE IF dbError
    THEN [orders |-> otable, outcome |-> "database_error"]
    ELSE IF body.order_id \notin DOMAIN otable
    THEN [orders |-> otable, outcome |-> "non_existent_order"]
    ELSE IF key \notin {StockDeductedKey, StockDeductionFailedKey}
    THEN [orders |-> otable, outcome |-> "unknown_routing_key"]
    ELSE [orders |-> [otable EXCEPT ![body.order_id].status = ReconciledStatus(key, @)],
          outcome |-> "updated"]

\* a consumer that lets the error of a failed status update reach the broker
\* client, which puts the message back at the head of its queue
ReconcileRequeueOnError(key) ==
    /\ started["order"] /\ rabbitmq_exchange["order"]
    /\ queue[key] # <<>>
    /\ \E dbError \in BOOLEAN, acked \in BOOLEAN :
        LET body == Head(queue[key])
            res == ProcessMessage(key, body, orders, dbError)
        IN /\ ~acked => redelivered < MaxRedeliver
           /\ orders' = res.orders
           /\ reconciled' = [key |-> key, order_id |-> body.order_id,
                             outcome |-> res.outcome]
           /\ queue' = IF acked /\ res.outcome # "database_error"
                       THEN [queue EXCEPT ![key] = Tail(@)] ELSE queue
           /\ redelivered' = IF acked THEN redelivered ELSE redelivered + 1
    /\ UNCHANGED <<started, rabbitmq_exchange, bound, productVars, order_items,
                   next_order_id, next_item_id, committed_ids, requests, worker, conc,
                   amounts, connecting,
                   deduct_answer, sync, db_init, ledger, patch_answer>>

\* One delivery of a result queue, handled without suspension; a lost
\* acknowledgement leaves the message in the queue.
Reconcile(key) ==
    /\ started["order"] /\ rabbitmq_exchange["order"]
    /\ queue[key] # <<>>
    /\ \E dbError \in BOOLEAN, acked \in BOOLEAN :
        LET body == Head(queue[key])
            res == ProcessMessage(key, body, orders, dbError)
        IN /\ ~acked => redelivered < MaxRedeliver
           /\ orders' = res.orders
           /\ reconciled' = [key |-> key, order_id |-> body.order_id,
                             outcome |-> res.outcome]
           /\ queue' = IF acked THEN [queue EXCEPT ![key] = Tail(@)] ELSE queue
           /\ redelivered' = IF acked THEN redelivered ELSE redelivered + 1
    /\ UNCHANGED <<started, rabbitmq_exchange, bound, productVars, order_items,
                   next_order_id, next_item_id, committed_ids, requests, worker, conc,
                   amounts, connecting,
                   deduct_answer, sync, db_init, ledger, patch_answer>>

ReconcileDeducted == Reconcile(StockDeductedKey)
ReconcileFailed == Reconcile(StockDeductionFailedKey)

\* ------------------------------------------------------------ specification
Next ==
    \/ \E svc \in Services : Startup(svc)
    \/ CreateProduct
    \/ UpdateProduct
    \/ DeductStock
    \/ WorkerProcess
    \/ WorkerPublish
    \/ WorkerAck
    \/ \E r \in ReqIds : CreateOrderEmpty(r)
    \/ \E r \in ReqIds : CreateOrderWrite(r)
    \/ \E r \in ReqIds : CreateOrderPublish(r)
    \/ DeleteOrder
    \/ ReconcileDeducted
    \/ ReconcileFailed

Spec == Init /\ [][Next]_vars

\* ------------------------------------------- interleaved deduction (SpecConc)
\* Two deduction executions on the shared product table, each in its own
\* database session: a worker transaction of another product service
\* instance or, with a single item, a deduct-stock call.  A step is one
\* iteration of the item loop (the autoflush of the session's pending UPDATEs,
\* the SELECT, the check and the in-session decrement); the commit is a
\* further step.  An UPDATE takes the row lock until the transaction ends.
Execs == {1, 2}

Other(e) == 3 - e

NewExec(items) ==
    [items |-> items, idx |-> 1, sess |-> NewSession, pc |-> "loop",
     locks |-> {}, result |-> ""]

\* rows the next statement of e has to lock: the session's modified rows
Needs(e) ==
    IF conc.exec[e].pc \in {"loop", "finish"} /\ conc.exec[e].sess.success
    THEN DOMAIN conc.exec[e].sess.loaded
    ELSE {}

Blocked(e) == Needs(e) \cap conc.exec[Other(e)].locks # {}

ConcInit ==
    /\ started = [s \in Services |-> TRUE]
    /\ rabbitmq_exchange = [s \in Services |-> TRUE]
    /\ bound = RoutingKeys
    /\ queue = [k \in RoutingKeys |-> <<>>]
    /\ stock_quantity \in [ProductIds -> Stocks]
    /\ next_product_id = NumProducts + 1
    /\ orders = EmptyFn
    /\ order_items = {}
    /\ next_order_id = 1
    /\ next_item_id = 1
    /\ requests = [r \in ReqIds |-> NewRequest]
    /\ worker = IdleWorker
    /\ reconciled = NothingReconciled
    /\ redelivered = 0
    /\ committed_ids = {}
    /\ amounts = EmptyFn
    /\ connecting = EmptyFn
    /\ deduct_answer = NoAnswer
    /\ sync = NoSync
    /\ db_init = EmptyFn
    /\ ledger = NoLedger
    /\ patch_answer = NoPatch
    /\ \E l1 \in ItemLists \ {<<>>}, l2 \in ItemLists \ {<<>>} :
        conc = [stock0 |-> stock_quantity,
                exec |-> [e \in Execs |-> NewExec(IF e = 1 THEN l1 ELSE l2)]]

concOthers == <<started, rabbitmq_exchange, bound, queue, next_product_id, orders,
                order_items, next_order_id, next_item_id, requests, worker,
                reconciled, redelivered, committed_ids, amounts, connecting,
                   deduct_answer, sync, db_init, ledger, patch_answer>>

\* one iteration of the item loop in session e
ConcItem(e) ==
    LET x == conc.exec[e]
        s == DeductItem(x.items[x.idx], stock_quantity, x.sess)
    IN /\ x.pc = "loop"
       /\ ~Blocked(e)
       /\ conc' = [conc EXCEPT !.exec[e] =
              [x EXCEPT !.sess = s,
                        !.idx = x.idx + 1,
                        !.locks = x.locks \cup Needs(e),
                        !.pc = IF ~s.success \/ x.idx + 1 > Len(x.items)
                               THEN "finish" ELSE "loop"]]
       /\ UNCHANGED <<stock_quantity, concOthers>>

\* if success: local_db_session.commit()
ConcCommit(e) ==
    LET x == conc.exec[e]
    IN /\ x.pc = "finish" /\ x.sess.success
       /\ ~Blocked(e)
       /\ stock_quantity' = SessionCommit(stock_quantity, x.sess)
       /\ conc' = [conc EXCEPT !.exec[e] =
              [x EXCEPT !.pc = "done", !.locks = {}, !.result = "success"]]
       /\ UNCHANGED concOthers

\* else: local_db_session.rollback()
ConcRollback(e) ==
    LET x == conc.exec[e]
    IN /\ x.pc = "finish" /\ ~x.sess.success
       /\ stock_quantity' = SessionRollback(stock_quantity, x.sess)
       /\ conc' = [conc EXCEPT !.exec[e] =
              [x EXCEPT !.pc = "done", !.locks = {}, !.result = "failed"]]
       /\ UNCHANGED concOthers

\* both sessions wait for a row the other has locked: the database aborts
\* one of them, whose statement raises (except Exception: rollback).
ConcDeadlock(e) ==
    LET x == conc.exec[e]
    IN /\ Blocked(e) /\ Blocked(Other(e))
       /\ stock_quantity' = SessionRollback(stock_quantity, x.sess)
       /\ conc' = [conc EXCEPT !.exec[e] =
              [x EXCEPT !.pc = "done", !.locks = {}, !.result = "failed",
                        !.sess.success = FALSE]]
       /\ UNCHANGED concOthers

ConcNext ==
    \/ \E e \in Execs : ConcItem(e)
    \/ \E e \in Execs : ConcCommit(e)
    \/ \E e \in Execs : ConcRollback(e)
    \/ \E e \in Execs : ConcDeadlock(e)

SpecConc == ConcInit /\ [][ConcNext]_vars

\* ------------------------------------- delivery of any message (SpecDelivery)
\* The two consumers take whatever the broker delivers: the exchange accepts
\* an order.placed message from any publisher, and a message reaches
\* process_message with the routing key it was published with.  Here both
\* services are connected, the tables are populated, and the messages are
\* drawn from every shape the handlers distinguish: an item may lack its
\* product id or its quantity (0), the order id of a result may be absent (0)
\* or name no order, the routing key may be none of the result keys.
AnyItemSet == [product_id : 0..NumProducts, quantity : 0..MaxQty]

AnyItemLists == UNION {[1..n -> AnyItemSet] : n \in 0..MaxItems}

PlacedMessages ==
    [order_id : 0..(MaxRequests + 1), items : AnyItemLists, status : {"pending"}]
        \cup {NotJsonMsg}

OrderStatuses == {"pending", "confirmed", "failed"}

DeliveredKeys == RoutingKeys \cup {"order_service_stock_deducted_queue"}

\* the rows of one persisted order with a single item
OneOrderTable(oid, st) ==
    (oid :> [user_id |-> 1, shipping_address |-> "12 Request Road",
             total_amount |-> OrderTotal(<<[product_id |-> 1, quantity |-> 1]>>),
             status |-> st])

OneItemTable(oid) ==
    {[order_item_id |-> oid, order_id |-> oid, product_id |-> 1, quantity |-> 1]}

DeliveryInit ==
    /\ started = [s \in Services |-> TRUE]
    /\ rabbitmq_exchange = [s \in Services |-> TRUE]
    /\ bound = RoutingKeys
    /\ queue = [k \in RoutingKeys |-> <<>>]
    /\ \E n \in 0..NumProducts :
        /\ stock_quantity \in [1..n -> Stocks]
        /\ next_product_id = n + 1
    /\ \/ /\ orders = EmptyFn
          /\ order_items = {}
          /\ next_order_id = 1
       \/ /\ \E st \in OrderStatuses : orders = OneOrderTable(1, st)
          /\ order_items = OneItemTable(1)
          /\ next_order_id = 2
    /\ next_item_id = next_order_id
    /\ committed_ids = DOMAIN orders
    /\ requests = [r \in ReqIds |-> NewRequest]
    /\ worker = IdleWorker
    /\ reconciled = NothingReconciled
    /\ redelivered = 0
    /\ conc = EmptyFn
    /\ amounts = EmptyFn
    /\ connecting = EmptyFn
    /\ deduct_answer = NoAnswer
    /\ sync = NoSync
    /\ db_init = EmptyFn
    /\ ledger = NoLedger
    /\ patch_answer = NoPatch

\* some publisher sends an order.placed message to the exchange; one message
\* is in flight at a time
PublishPlaced ==
    /\ \A k \in RoutingKeys : queue[k] = <<>>
    /\ worker.pc = "idle"
    /\ reconciled = NothingReconciled
    /\ \E msg \in PlacedMessages :
        queue' = Route(queue, bound, OrderPlacedKey, msg)
    /\ UNCHANGED <<started, rabbitmq_exchange, bound, productVars, orderVars,
                   requests, worker, reconciled, redelivered, conc, amounts,
                   connecting,
                   deduct_answer, sync, db_init, ledger, patch_answer>>

\* process_message called with a delivered message: its routing key and the
\* order_id of its body are whatever the publisher chose; delivered while
\* nothing else is in flight
DeliverResult ==
    /\ \A k \in RoutingKeys : queue[k] = <<>>
    /\ worker.pc = "idle"
    /\ \E key \in DeliveredKeys, oid \in 0..(MaxRequests + 1), dbError \in BOOLEAN :
       \E body \in {ResultBody(oid, "", <<>>), NotJsonBody} :
        LET res == ProcessMessage(key, body, orders, dbError)
        IN /\ orders' = res.orders
           /\ reconciled' = [key |-> key, order_id |-> body.order_id,
                             outcome |-> res.outcome]
    /\ UNCHANGED <<started, rabbitmq_exchange, brokerVars, productVars, order_items,
                   next_order_id, next_item_id, committed_ids, requests, worker,
                   redelivered, conc, amounts,
                   connecting,
                   deduct_answer, sync, db_init, ledger, patch_answer>>

DeliveryNext ==
    \/ PublishPlaced
    \/ WorkerProcess
    \/ WorkerPublish
    \/ WorkerAck
    \/ ReconcileDeducted
    \/ ReconcileFailed
    \/ DeliverResult

SpecDelivery == DeliveryInit /\ [][DeliveryNext]_vars

\* --------------------------------------------- stored amounts (SpecTotals)
\* Step 2 of create_order on its amounts.  An amount is a whole number of
\* thousandths: a request price is the decimal Decimal(str(price)) reads
\* from the float, here with up to three decimal places.
PricedItems == [quantity : Quantities, price_at_purchase : 1..MaxPrice]

PricedItemLists == UNION {[1..n -> PricedItems] : n \in 1..MaxItems}

\* the OrderItem row of one request item as the table keeps it
StoredItem(item) ==
    [quantity |-> item.quantity,
     price_at_purchase |-> Numeric2(item.price_at_purchase),
     item_total |-> Numeric2(item.quantity * item.price_at_purchase)]

TotalsInit ==
    /\ started = [s \in Services |-> TRUE]
    /\ rabbitmq_exchange = [s \in Services |-> FALSE]
    /\ bound = {}
    /\ queue = [k \in RoutingKeys |-> <<>>]
    /\ stock_quantity = EmptyFn
    /\ next_product_id = 1
    /\ orders = EmptyFn
    /\ order_items = {}
    /\ next_order_id = 1
    /\ next_item_id = 1
    /\ requests = [r \in ReqIds |-> NewRequest]
    /\ worker = IdleWorker
    /\ reconciled = NothingReconciled
    /\ redelivered = 0
    /\ committed_ids = {}
    /\ conc = EmptyFn
    /\ connecting = EmptyFn
    /\ deduct_answer = NoAnswer
    /\ sync = NoSync
    /\ db_init = EmptyFn
    /\ ledger = NoLedger
    /\ patch_answer = NoPatch
    /\ \E items \in PricedItemLists :
        amounts = [pc |-> "request", req_items |-> items, total_amount |-> 0,
                   items |-> <<>>]

\* the Order and OrderItem rows are built from the request, committed and
\* refreshed: the amounts are then those of the columns
StoreAmounts ==
    /\ amounts.pc = "request"
    /\ amounts' = [amounts EXCEPT
                      !.pc = "stored",
                      !.total_amount = Numeric2(TotalAmount(amounts.req_items)),
                      !.items = [i \in DOMAIN amounts.req_items |->
                                    StoredItem(amounts.req_items[i])]]
    /\ UNCHANGED <<started, rabbitmq_exchange, brokerVars, productVars, orderVars,
                   requests, worker, reconciled, redelivered, conc, connecting,
                   deduct_answer, sync, db_init, ledger, patch_answer>>

TotalsNext == StoreAmounts

SpecTotals == TotalsInit /\ [][TotalsNext]_vars

\* ------------------------------------- connect_to_rabbitmq (SpecConnect)
\* The retry loop of connect_to_rabbitmq, one per service, a step per await:
\* an attempt (connect_robust, channel, declare_exchange) or the sleep
\* between two attempts.  i is the loop variable, attempts counts the calls
\* of connect_robust, waited adds up the seconds slept.
ConnectOutcomes == {"ok", "connect_fails", "channel_fails", "declare_fails"}

NotConnecting ==
    [pc |-> "attempt", i |-> 0, attempts |-> 0, waited |-> 0,
     connection |-> FALSE, channel |-> FALSE, result |-> FALSE]

\* a handler that sleeps after every failed attempt
AfterFailureAlwaysSleeps(i) == "sleep"

\* the except clause: sleep unless this was the last attempt
AfterFailure(i) == IF i < max_retries - 1 THEN "sleep" ELSE "returned"

\* startup_event before its first create_all
DbNotTried == [pc |-> "try", i |-> 0, attempts |-> 0, waited |-> 0, last |-> ""]

DbOutcomes == {"ok", "operational_error", "other_error"}

\* a database loop that sleeps after every failed attempt
AfterDbFailureAlwaysSleeps(i, outcome) == "sleep"

\* except OperationalError: sleep unless this was the last attempt, then
\* sys.exit(1); except Exception: sys.exit(1)
AfterDbFailure(i, outcome) ==
    IF outcome = "operational_error" /\ i < max_retries - 1 THEN "sleep" ELSE "exited"

\* one pass of the loop body of startup_event: Base.metadata.create_all
\* succeeds (break) or raises
DbAttempt(svc) ==
    /\ ~started[svc]
    /\ db_init[svc].pc = "try"
    /\ \E outcome \in DbOutcomes :
        db_init' = [db_init EXCEPT ![svc] =
            [@ EXCEPT !.attempts = @ + 1, !.last = outcome,
                      !.pc = IF outcome = "ok" THEN "done"
                             ELSE AfterDbFailure(db_init[svc].i, outcome)]]
    /\ UNCHANGED <<started, rabbitmq_exchange, bound, queue, productVars, orderVars,
                   requests, worker, reconciled, redelivered, conc, amounts,
                   connecting, deduct_answer, sync, ledger, patch_answer>>

\* time.sleep(retry_delay_seconds), then the next iteration of
\* 'for i in range(max_retries)'; a range that is exhausted ends the loop
DbSleep(svc) ==
    /\ db_init[svc].pc = "sleep"
    /\ db_init' = [db_init EXCEPT ![svc] =
           [@ EXCEPT !.waited = @ + retry_delay_seconds,
                     !.i = @ + 1,
                     !.pc = IF db_init[svc].i + 1 < max_retries THEN "try" ELSE "done"]]
    /\ UNCHANGED <<started, rabbitmq_exchange, bound, queue, productVars, orderVars,
                   requests, worker, reconciled, redelivered, conc, amounts,
                   connecting, deduct_answer, sync, ledger, patch_answer>>

ConnectInit ==
    /\ started = [s \in Services |-> FALSE]
    /\ rabbitmq_exchange = [s \in Services |-> FALSE]
    /\ bound = {}
    /\ queue = [k \in RoutingKeys |-> <<>>]
    /\ stock_quantity = EmptyFn
    /\ next_product_id = 1
    /\ orders = EmptyFn
    /\ order_items = {}
    /\ next_order_id = 1
    /\ next_item_id = 1
    /\ requests = [r \in ReqIds |-> NewRequest]
    /\ worker = IdleWorker
    /\ reconciled = NothingReconciled
    /\ redelivered = 0
    /\ committed_ids = {}
    /\ conc = EmptyFn
    /\ amounts = EmptyFn
    /\ connecting = [s \in Services |-> NotConnecting]
    /\ deduct_answer = NoAnswer
    /\ sync = NoSync
    /\ db_init = [s \in Services |-> DbNotTried]
    /\ ledger = NoLedger
    /\ patch_answer = NoPatch

connectOthers == <<started, bound, queue, productVars, orderVars, requests, worker,
                   reconciled, redelivered, conc, amounts, deduct_answer, sync,
                   db_init, ledger, patch_answer>>

\* one pass of the try block: the three awaits succeed and the function
\* returns True, or one of them raises; the handles assigned before the
\* raise stay assigned
ConnectAttempt(svc) ==
    /\ ~started[svc]
    /\ db_init[svc].pc = "done"
    /\ connecting[svc].pc = "attempt"
    /\ \E outcome \in ConnectOutcomes :
        LET c == connecting[svc]
            tried == [c EXCEPT !.attempts = @ + 1,
                               !.connection = @ \/ outcome # "connect_fails",
                               !.channel = @ \/ outcome \in {"ok", "declare_fails"}]
        IN IF outcome = "ok"
           THEN /\ connecting' = [connecting EXCEPT ![svc] =
                       [tried EXCEPT !.pc = "returned", !.result = TRUE]]
                /\ rabbitmq_exchange' = [rabbitmq_exchange EXCEPT ![svc] = TRUE]
           ELSE /\ connecting' = [connecting EXCEPT ![svc] =
                       [tried EXCEPT !.pc = AfterFailure(c.i), !.result = FALSE]]
                /\ UNCHANGED rabbitmq_exchange
    /\ UNCHANGED connectOthers

\* await asyncio.sleep(retry_delay_seconds), then the next iteration; with
\* the range exhausted the function returns False
ConnectSleep(svc) ==
    /\ connecting[svc].pc = "sleep"
    /\ connecting' = [connecting EXCEPT ![svc] =
           [@ EXCEPT !.waited = @ + retry_delay_seconds,
                     !.i = @ + 1,
                     !.pc = IF connecting[svc].i + 1 < max_retries
                            THEN "attempt" ELSE "returned"]]
    /\ UNCHANGED rabbitmq_exchange
    /\ UNCHANGED connectOthers

\* startup_event goes on with what connect_to_rabbitmq returned
ConnectReturn(svc) ==
    /\ connecting[svc].pc = "returned"
    /\ Startup(svc)
    /\ rabbitmq_exchange'[svc] = connecting[svc].result

ConnectNext ==
    \/ \E svc \in Services : ConnectAttempt(svc)
    \/ \E svc \in Services : ConnectSleep(svc)
    \/ \E svc \in Services : ConnectReturn(svc)
    \/ \E svc \in Services : DbAttempt(svc)
    \/ \E svc \in Services : DbSleep(svc)
    \/ \E r \in ReqIds : CreateOrderEmpty(r)

SpecConnect == ConnectInit /\ [][ConnectNext]_vars

\* ------------------------------------------- the saga end to end (SpecLive)
\* Both services are connected and every queue is bound before the first
\* request; every publish reaches the broker; no order is deleted.  A
\* delivery may still be repeated (a lost acknowledgement, MaxRedeliver
\* times) and a transaction may still fail.  The event loop runs every task
\* that is ready and the broker hands over every message that is ready:
\* weak fairness of each step.
LiveInit ==
    /\ started = [s \in Services |-> TRUE]
    /\ rabbitmq_exchange = [s \in Services |-> TRUE]
    /\ bound = RoutingKeys
    /\ queue = [k \in RoutingKeys |-> <<>>]
    /\ \E n \in 0..NumProducts :
        /\ stock_quantity \in [1..n -> Stocks]
        /\ next_product_id = n + 1
    /\ orders = EmptyFn
    /\ order_items = {}
    /\ next_order_id = 1
    /\ next_item_id = 1
    /\ requests = [r \in ReqIds |-> NewRequest]
    /\ worker = IdleWorker
    /\ reconciled = NothingReconciled
    /\ redelivered = 0
    /\ committed_ids = {}
    /\ conc = EmptyFn
    /\ amounts = EmptyFn
    /\ connecting = EmptyFn
    /\ deduct_answer = NoAnswer
    /\ sync = NoSync
    /\ db_init = EmptyFn
    /\ ledger = NoLedger
    /\ patch_answer = NoPatch

\* create_order, step 3, with a publish that goes through
LiveCreateOrderPublish(r) ==
    /\ CreateOrderPublish(r)
    /\ queue' = Route(queue, bound, OrderPlacedKey, requests[r].event)

\* the worker's publish of its result event, going through
LiveWorkerPublish ==
    /\ WorkerPublish
    /\ queue' = Route(queue, bound, worker.key, worker.body)

LiveNext ==
    \/ \E r \in ReqIds : CreateOrderEmpty(r)
    \/ \E r \in ReqIds : CreateOrderWrite(r)
    \/ \E r \in ReqIds : LiveCreateOrderPublish(r)
    \/ WorkerProcess
    \/ LiveWorkerPublish
    \/ WorkerAck
    \/ ReconcileDeducted
    \/ ReconcileFailed

LiveFairness ==
    /\ \A r \in ReqIds : WF_vars(LiveCreateOrderPublish(r))
    /\ WF_vars(WorkerProcess)
    /\ WF_vars(LiveWorkerPublish)
    /\ WF_vars(WorkerAck)
    /\ WF_vars(ReconcileDeducted)
    /\ WF_vars(ReconcileFailed)

SpecLive == LiveInit /\ [][LiveNext]_vars /\ LiveFairness

\* ------------------------------------------ low-stock alerts (SpecAlerts)
\* The worker on tables whose stock lies on both sides of RESTOCK_THRESHOLD:
\* both services connected, no order persisted, any order.placed message.
AlertStocks == 0..MaxAlertStock

AlertsInit ==
    /\ started = [s \in Services |-> TRUE]
    /\ rabbitmq_exchange = [s \in Services |-> TRUE]
    /\ bound = RoutingKeys
    /\ queue = [k \in RoutingKeys |-> <<>>]
    /\ \E n \in 0..NumProducts :
        /\ stock_quantity \in [1..n -> AlertStocks]
        /\ next_product_id = n + 1
    /\ orders = EmptyFn
    /\ order_items = {}
    /\ next_order_id = 1
    /\ next_item_id = 1
    /\ committed_ids = {}
    /\ requests = [r \in ReqIds |-> NewRequest]
    /\ worker = IdleWorker
    /\ reconciled = NothingReconciled
    /\ redelivered = 0
    /\ conc = EmptyFn
    /\ amounts = EmptyFn
    /\ connecting = EmptyFn
    /\ deduct_answer = NoAnswer
    /\ sync = NoSync
    /\ db_init = EmptyFn
    /\ ledger = NoLedger
    /\ patch_answer = NoPatch

AlertsNext ==
    \/ PublishPlaced
    \/ WorkerProcess
    \/ WorkerPublish
    \/ WorkerAck

SpecAlerts == AlertsInit /\ [][AlertsNext]_vars

\* ------------------------------------------ queued deliveries (SpecQueue)
\* Both consumers with several messages waiting: order.placed messages
\* arrive at any time (Order Intake answering other requests), at most
\* MaxQueue messages of the saga are in the broker at once.  One product,
\* the orders 1..MaxQueue persisted; an order asks for one unit.
QueuedMessages ==
    [order_id : 1..MaxQueue, items : {<<[product_id |-> 1, quantity |-> 1]>>},
     status : {"pending"}]

InBroker ==
    Len(queue[OrderPlacedKey]) + Len(queue[StockDeductedKey])
        + Len(queue[StockDeductionFailedKey]) + (IF worker.pc = "idle" THEN 0 ELSE 1)

QueueInit ==
    /\ started = [s \in Services |-> TRUE]
    /\ rabbitmq_exchange = [s \in Services |-> TRUE]
    /\ bound = RoutingKeys
    /\ queue = [k \in RoutingKeys |-> <<>>]
    /\ stock_quantity \in [{1} -> Stocks]
    /\ next_product_id = 2
    /\ orders = [o \in 1..MaxQueue |-> OneOrderTable(o, "pending")[o]]
    /\ order_items = UNION {OneItemTable(o) : o \in 1..MaxQueue}
    /\ next_order_id = MaxQueue + 1
    /\ next_item_id = MaxQueue + 1
    /\ committed_ids = 1..MaxQueue
    /\ requests = [r \in ReqIds |-> NewRequest]
    /\ worker = IdleWorker
    /\ reconciled = NothingReconciled
    /\ redelivered = 0
    /\ conc = EmptyFn
    /\ amounts = EmptyFn
    /\ connecting = EmptyFn
    /\ deduct_answer = NoAnswer
    /\ sync = NoSync
    /\ db_init = EmptyFn
    /\ ledger = NoLedger
    /\ patch_answer = NoPatch

\* an order.placed message reaches the exchange while others are waiting or
\* being handled
PublishQueued ==
    /\ InBroker < MaxQueue
    /\ \E msg \in QueuedMessages :
        queue' = Route(queue, bound, OrderPlacedKey, msg)
    /\ UNCHANGED <<started, rabbitmq_exchange, bound, productVars, orderVars,
                   requests, worker, reconciled, redelivered, conc, amounts,
                   connecting, deduct_answer, sync, db_init, ledger, patch_answer>>

QueueNext ==
    \/ PublishQueued
    \/ WorkerProcess
    \/ WorkerPublish
    \/ WorkerAck
    \/ ReconcileDeducted
    \/ ReconcileFailed
    \/ UpdateProduct
    \/ DeductStock

SpecQueue == QueueInit /\ [][QueueNext]_vars

\* ------------------------------------ synchronous fallback (SpecFallback)
\* The product service answering deduct-stock calls, of a client and of the
\* order service creating an order in synchronous mode.  No messaging.
FallbackInit ==
    /\ started = [s \in Services |-> TRUE]
    /\ rabbitmq_exchange = [s \in Services |-> FALSE]
    /\ bound = {}
    /\ queue = [k \in RoutingKeys |-> <<>>]
    /\ \E n \in 0..NumProducts :
        /\ stock_quantity \in [1..n -> Stocks]
        /\ next_product_id = n + 1
    /\ orders = EmptyFn
    /\ order_items = {}
    /\ next_order_id = 1
    /\ next_item_id = 1
    /\ committed_ids = {}
    /\ requests = [r \in ReqIds |-> NewRequest]
    /\ worker = IdleWorker
    /\ reconciled = NothingReconciled
    /\ redelivered = 0
    /\ conc = EmptyFn
    /\ amounts = EmptyFn
    /\ connecting = EmptyFn
    /\ deduct_answer = NoAnswer
    /\ sync = NoSync
    /\ db_init = EmptyFn
    /\ ledger = NoLedger
    /\ patch_answer = NoPatch

\* a client calls deduct-stock (StockDeductRequest.quantity_to_deduct > 0)
\* and reads the answer
DeductStockCall ==
    /\ started["product"]
    /\ \E p \in ProductIds, q \in Quantities, commitOk \in BOOLEAN :
        LET ans == DeductStockAnswer(stock_quantity, p, q, commitOk)
        IN /\ stock_quantity' = ans.stock
           /\ deduct_answer' = DeductResponse(p, q, ans)
    /\ UNCHANGED <<started, rabbitmq_exchange, brokerVars, next_product_id, orderVars,
                   requests, worker, reconciled, redelivered, conc, amounts,
                   connecting, sync, db_init, ledger, patch_answer>>

\* the Order row the synchronous mode persists once every item was deducted
SyncOrderRowPending(order, total_amount) ==
    NewOrderRow(order, total_amount)

\* section 4.5: "the order and its items are persisted directly with status
\* confirmed"
SyncOrderRow(order, total_amount) ==
    [NewOrderRow(order, total_amount) EXCEPT !.status = "confirmed"]

\* section 4.5: the compensation step called for every item already deducted
\* "only logs a warning and performs no actual reversal": the items it names
CompensationLog(deducted) == deducted

\* synchronous mode, step 1: the request is accepted (a non-empty item list)
\* and the item loop starts
SyncCreateOrder ==
    /\ started["order"] /\ started["product"]
    /\ sync.pc = "new"
    /\ \E items \in ItemLists \ {<<>>} :
        sync' = [NoSync EXCEPT !.pc = "deduct", !.items = items, !.idx = 1]
    /\ UNCHANGED <<started, rabbitmq_exchange, brokerVars, productVars, orderVars,
                   requests, worker, reconciled, redelivered, conc, amounts,
                   connecting, deduct_answer, db_init, ledger, patch_answer>>

\* synchronous mode, step 2: one deduction call for the next item, awaited
\* before the following one.  The call does not reach the product service,
\* or reaches it and its answer arrives, or reaches it and the answer is lost
\* (the 5 s timeout).  The first call that is not answered 200 ends the
\* request after the compensation step.
SyncDeductItem ==
    /\ sync.pc = "deduct"
    /\ \E net \in {"ok", "unreachable", "answer_lost"}, commitOk \in BOOLEAN :
        LET item == sync.items[sync.idx]
            ans == DeductStockAnswer(stock_quantity, item.product_id,
                                     item.quantity, commitOk)
            seen == IF net = "ok" THEN ans.code ELSE 503
        IN /\ IF net = "unreachable"
              THEN UNCHANGED <<stock_quantity, deduct_answer>>
              ELSE /\ stock_quantity' = ans.stock
                   /\ deduct_answer' = DeductResponse(item.product_id,
                                                      item.quantity, ans)
           /\ sync' = IF seen = 200
                      THEN [sync EXCEPT !.deducted = Append(@, item),
                                        !.idx = @ + 1,
                                        !.pc = IF sync.idx = Len(sync.items)
                                               THEN "persist" ELSE "deduct"]
                      ELSE [sync EXCEPT !.pc = "done", !.code = seen,
                                        !.compensated = CompensationLog(sync.deducted)]
    /\ UNCHANGED <<started, rabbitmq_exchange, brokerVars, next_product_id, orderVars,
                   requests, worker, reconciled, redelivered, conc, amounts,
                   connecting, db_init, ledger, patch_answer>>

\* synchronous mode, step 3: every item was deducted; the order and its
\* items are added and committed in one local write.  A commit that fails
\* after the deductions is an internal error; nothing is retried.
SyncPersist ==
    /\ sync.pc = "persist"
    /\ \E commitOk \in BOOLEAN, user \in UserIds, addr \in ReqAddresses :
        LET oid == next_order_id
            order == [user_id |-> user, status |-> "pending",
                      shipping_address |-> addr]
        IN /\ IF commitOk
              THEN /\ orders' = (oid :> SyncOrderRow(order, OrderTotal(sync.items)))
                                    @@ orders
                   /\ order_items' = order_items
                                \cup NewItemRows(oid, sync.items, next_item_id)
                   /\ committed_ids' = committed_ids \cup {oid}
                   /\ sync' = [sync EXCEPT !.pc = "done", !.code = 201,
                                           !.order_id = oid]
              ELSE /\ UNCHANGED <<orders, order_items, committed_ids>>
                   /\ sync' = [sync EXCEPT !.pc = "done", !.code = 500]
           /\ next_order_id' = next_order_id + 1
           /\ next_item_id' = next_item_id + Len(sync.items)
    /\ UNCHANGED <<started, rabbitmq_exchange, brokerVars, productVars,
                   requests, worker, reconciled, redelivered, conc, amounts,
                   connecting, deduct_answer, db_init, ledger, patch_answer>>

FallbackNext ==
    \/ DeductStockCall
    \/ SyncCreateOrder
    \/ SyncDeductItem
    \/ SyncPersist

SpecFallback == FallbackInit /\ [][FallbackNext]_vars

\* ------------------------------------- the saga by itself (SpecSaga)
\* MaxSaga orders are persisted as pending and their order.placed events
\* wait in the worker's queue in the order of their commits.  Both consumers
\* are connected.  Every message is delivered once (no acknowledgement is
\* lost), and no endpoint touches a product or an order: only the worker and
\* the Reconciler run, with transactions and publishes that may fail.  The
\* ledger keeps the stock at the start and the messages whose deduction the
\* worker committed.
SagaOrders == 1..MaxSaga

SagaInit ==
    /\ started = [s \in Services |-> TRUE]
    /\ rabbitmq_exchange = [s \in Services |-> TRUE]
    /\ bound = RoutingKeys
    /\ \E n \in 0..NumProducts :
        /\ stock_quantity \in [1..n -> Stocks]
        /\ next_product_id = n + 1
    /\ \E req \in [SagaOrders -> ItemLists \ {<<>>}] :
        /\ orders = [o \in SagaOrders |->
                        NewOrderRow([user_id |-> 1, shipping_address |-> Null,
                                     status |-> "pending"], OrderTotal(req[o]))]
        /\ order_items = UNION {NewItemRows(o, req[o], 1 + (o - 1) * MaxItems) :
                                    o \in SagaOrders}
    /\ queue = [k \in RoutingKeys |->
                   IF k = OrderPlacedKey
                   THEN [o \in SagaOrders |-> OrderEventData(o, orders, order_items)]
                   ELSE <<>>]
    /\ next_order_id = MaxSaga + 1
    /\ next_item_id = 1 + MaxSaga * MaxItems
    /\ committed_ids = SagaOrders
    /\ requests = [r \in ReqIds |-> NewRequest]
    /\ worker = IdleWorker
    /\ reconciled = NothingReconciled
    /\ redelivered = MaxRedeliver
    /\ conc = EmptyFn
    /\ amounts = EmptyFn
    /\ connecting = EmptyFn
    /\ deduct_answer = NoAnswer
    /\ sync = NoSync
    /\ db_init = EmptyFn
    /\ ledger = [on |-> TRUE, initial |-> stock_quantity, deducted |-> <<>>]
    /\ patch_answer = NoPatch

SagaNext ==
    \/ WorkerProcess
    \/ WorkerPublish
    \/ WorkerAck
    \/ ReconcileDeducted
    \/ ReconcileFailed

SpecSaga == SagaInit /\ [][SagaNext]_vars

\* ------------------------------- status patches and results (SpecPatch)
\* the statuses a client asks for
PatchStatuses == {"cancelled", "shipped"}

\* the request body of update_order_status: an object with the field status
OrderStatusUpdate(text) == [type |-> "OrderStatusUpdate", status |-> text]

\* update_order_status: 404 when the order is absent; otherwise
\* 'db_order.status = new_status' puts the request object itself in the
\* attribute, and the commit has to bind it to the String(50) column: a value
\* that is not a str is refused by the driver, the except clause rolls back
\* and answers 500, as it does when the database fails.
UpdateOrderStatusResult(otable, oid, new_status, commitOk) ==
    IF oid \notin DOMAIN otable THEN [code |-> 404, orders |-> otable]
    ELSE LET assigned == new_status
         IN IF assigned.type # "str" \/ ~commitOk
            THEN [code |-> 500, orders |-> otable]
            ELSE [code |-> 200, orders |-> [otable EXCEPT ![oid].status = assigned.value]]

UpdateOrderStatus ==
    /\ started["order"]
    /\ \E oid \in 1..next_order_id, text \in PatchStatuses, commitOk \in BOOLEAN :
        LET res == UpdateOrderStatusResult(orders, oid, OrderStatusUpdate(text), commitOk)
        IN /\ orders' = res.orders
           /\ patch_answer' = [order_id |-> oid, status |-> text, code |-> res.code,
                               db_ok |-> commitOk]
    /\ UNCHANGED <<started, rabbitmq_exchange, brokerVars, productVars, order_items,
                   next_order_id, next_item_id, committed_ids, requests, worker,
                   reconciled, redelivered, conc, amounts, connecting,
                   deduct_answer, sync, db_init, ledger>>

\* the result event of order o under the key k
ResultEvent(o, k) ==
    ResultBody(o, IF k = StockDeductedKey THEN "success" ELSE "failed", <<>>)

\* MaxSaga orders are persisted as pending and the worker has published the
\* result event of each; clients patch statuses while the Reconciler takes
\* the events.
PatchInit ==
    /\ started = [s \in Services |-> TRUE]
    /\ rabbitmq_exchange = [s \in Services |-> TRUE]
    /\ bound = RoutingKeys
    /\ stock_quantity = (1 :> MaxStock)
    /\ next_product_id = 2
    /\ orders = [o \in SagaOrders |-> OneOrderTable(o, "pending")[o]]
    /\ order_items = UNION {OneItemTable(o) : o \in SagaOrders}
    /\ \E keys \in [SagaOrders -> ConsumerKeys("order")] :
        queue = [k \in RoutingKeys |->
                    LET all == [o \in SagaOrders |-> o]
                        sel == SelectSeq(all, LAMBDA o : keys[o] = k)
                    IN [i \in DOMAIN sel |-> ResultEvent(sel[i], k)]]
    /\ next_order_id = MaxSaga + 1
    /\ next_item_id = MaxSaga + 1
    /\ committed_ids = SagaOrders
    /\ requests = [r \in ReqIds |-> NewRequest]
    /\ worker = IdleWorker
    /\ reconciled = NothingReconciled
    /\ redelivered = 0
    /\ conc = EmptyFn
    /\ amounts = EmptyFn
    /\ connecting = EmptyFn
    /\ deduct_answer = NoAnswer
    /\ sync = NoSync
    /\ db_init = EmptyFn
    /\ ledger = NoLedger
    /\ patch_answer = NoPatch

PatchNext ==
    \/ UpdateOrderStatus
    \/ ReconcileDeducted
    \/ ReconcileFailed

SpecPatch == PatchInit /\ [][PatchNext]_vars

\* ------------------------------------------- order intake alone (SpecIntake)
\* POST /orders/ with every shipping address a request can carry (OrderBase:
\* absent, empty, a text) against every shipping address the customer record
\* can hold.  The order service is up, with or without its exchange; each
\* waiting request has its two addresses, and create_order takes it through
\* validation, customer lookup, the database write and the publish.
IntakeRequests ==
    {[NewRequest EXCEPT !.req_address = addr, !.cust_address = cust] :
        addr \in ReqAddresses, cust \in CustAddresses}

IntakeInit ==
    /\ started = [s \in Services |-> s = "order"]
    /\ \E connected \in BOOLEAN :
        /\ rabbitmq_exchange = [s \in Services |-> s = "order" /\ connected]
        /\ bound = IF connected THEN ConsumerKeys("order") ELSE {}
    /\ queue = [k \in RoutingKeys |-> <<>>]
    /\ stock_quantity = EmptyFn
    /\ next_product_id = 1
    /\ orders = EmptyFn
    /\ order_items = {}
    /\ next_order_id = 1
    /\ next_item_id = 1
    /\ requests \in [ReqIds -> IntakeRequests]
    /\ worker = IdleWorker
    /\ reconciled = NothingReconciled
    /\ redelivered = 0
    /\ committed_ids = {}
    /\ conc = EmptyFn
    /\ amounts = EmptyFn
    /\ connecting = EmptyFn
    /\ deduct_answer = NoAnswer
    /\ sync = NoSync
    /\ db_init = EmptyFn
    /\ ledger = NoLedger
    /\ patch_answer = NoPatch

IntakeNext ==
    \/ \E r \in ReqIds : CreateOrderEmpty(r)
    \/ \E r \in ReqIds : CreateOrderWrite(r)
    \/ \E r \in ReqIds : CreateOrderPublish(r)

SpecIntake == IntakeInit /\ [][IntakeNext]_vars

\* ================================================================== claims
\* a step in which the worker handles one order.placed message
WorkerHandles == worker.pc = "idle" /\ worker'.pc = "publish"

\* every item can be deducted in list order from the table db: its product
\* exists and its quantity fits what the earlier items of the list left
Fits(items, db) ==
    \A i \in DOMAIN items :
        /\ items[i].product_id \in DOMAIN db
        /\ QtyOf(SubSeq(items, 1, i), items[i].product_id) <= db[items[i].product_id]

\* every product's stock went down by what the items ask of it
DeductedAll(items, before, after) ==
    /\ DOMAIN after = DOMAIN before
    /\ \A p \in DOMAIN before : after[p] = before[p] - QtyOf(items, p)

\* C1: all-or-nothing deduction.  Each handling of an order.placed message
\* either commits the decrease of every item's product by the item's quantity
\* (and reports success) or leaves the committed stock of every product as it
\* was (and reports failure); whenever some item's product is missing or its
\* quantity exceeds the stock left by the earlier items, nothing changes.
C1_AllOrNothing ==
    [][WorkerHandles =>
        LET items == worker'.msg.items
        IN /\ \/ /\ stock_quantity' = stock_quantity
                 /\ worker'.key = StockDeductionFailedKey
              \/ /\ Fits(items, stock_quantity)
                 /\ DeductedAll(items, stock_quantity, stock_quantity')
                 /\ worker'.key = StockDeductedKey
           /\ ~Fits(items, stock_quantity) => stock_quantity' = stock_quantity]_vars

\* a two-item order whose first item was decremented in the session and whose
\* second item then failed on the stock the first one left: nothing committed
C1_Witness ==
    /\ worker.pc = "publish"
    /\ worker.key = StockDeductionFailedKey
    /\ Len(worker.msg.items) = 2
    /\ Len(worker.body.details) = 1
    /\ worker.body.details[1].reason = "insufficient_stock"
    /\ LET first == worker.msg.items[1]
       IN /\ first.product_id \in DOMAIN stock_quantity
          /\ worker.msg.items[2].product_id = first.product_id
          /\ stock_quantity[first.product_id] >= first.quantity
          /\ worker.body.details[1].available_stock
                 = stock_quantity[first.product_id] - first.quantity

\* C2: the stock of every product is never negative.
C2_StockNonNegative ==
    \A p \in DOMAIN stock_quantity : stock_quantity[p] >= 0

\* a deduction (by the worker) that took a product's stock down to zero
C2_Witness ==
    /\ worker.pc = "publish"
    /\ worker.key = StockDeductedKey
    /\ \E p \in DOMAIN stock_quantity :
        stock_quantity[p] = 0 /\ QtyOf(worker.msg.items, p) > 0

\* C3: two deductions whose statements interleave, each fitting the stock
\* they started from but not both together, never drive a stock negative and
\* exactly one of them succeeds.
C3_ExactlyOneSucceeds ==
    LET x == conc.exec
    IN (/\ x[1].pc = "done" /\ x[2].pc = "done"
        /\ \A e \in Execs : Fits(x[e].items, conc.stock0)
        /\ \E p \in ProductIds :
              QtyOf(x[1].items, p) + QtyOf(x[2].items, p) > conc.stock0[p])
       => /\ \A p \in DOMAIN stock_quantity : stock_quantity[p] >= 0
          /\ Cardinality({e \in Execs : x[e].result = "success"}) = 1

\* C4: once an order is confirmed or failed, no result event changes its
\* status again: the Reconciler only moves an order out of pending.
C4_TerminalStatusKept ==
    [][\A o \in DOMAIN orders \cap DOMAIN orders' :
          orders'[o].status # orders[o].status => orders[o].status = "pending"]_vars

\* the handler reported no database error for the message it handled
NoDatabaseError(w) == w.body.details # DatabaseErrorDetails

\* a step in which the worker returns from publish_event
WorkerPublishes == worker.pc = "publish" /\ worker'.pc = "ack"

\* the status of an order is what the last result event applied to it said
LastAppliedStatus(key, st, rec, otable) ==
    (rec.key = key /\ rec.outcome = "updated" /\ rec.order_id \in DOMAIN otable)
        => otable[rec.order_id].status = st

\* C5: when every item of a placed order can be deducted (its product exists
\* and its quantity fits the stock the handler sees for it) and the
\* transaction raises no database error, the worker commits the decrease of
\* each product by the items' quantities, and only in the following step
\* publishes a stock-deducted event with the order id and status "success"
\* (nothing else enters the broker, stock untouched by the publish); the
\* Reconciler applying that event to the order leaves it confirmed.
C5_SuccessPath ==
    [][/\ (WorkerHandles /\ Fits(worker'.msg.items, stock_quantity)
              /\ NoDatabaseError(worker'))
          => /\ DeductedAll(worker'.msg.items, stock_quantity, stock_quantity')
             /\ worker'.key = StockDeductedKey
             /\ worker'.body = ResultBody(worker'.msg.order_id, "success", <<>>)
             /\ queue'[StockDeductedKey] = queue[StockDeductedKey]
       /\ (WorkerPublishes /\ worker.key = StockDeductedKey)
          => /\ stock_quantity' = stock_quantity
             /\ \/ queue' = queue
                \/ queue' = [queue EXCEPT ![StockDeductedKey] = Append(@, worker.body)]
       /\ LastAppliedStatus(StockDeductedKey, "confirmed", reconciled', orders')]_vars

\* the worker took a product's stock down to zero for an order, published
\* the success event, and the Reconciler has confirmed the order
C5_Witness ==
    /\ worker.pc = "ack"
    /\ worker.key = StockDeductedKey
    /\ \E p \in DOMAIN stock_quantity :
        QtyOf(worker.msg.items, p) = MaxQty /\ stock_quantity[p] = 0
    /\ reconciled = [key |-> StockDeductedKey, order_id |-> worker.msg.order_id,
                     outcome |-> "updated"]
    /\ worker.msg.order_id \in DOMAIN orders
    /\ orders[worker.msg.order_id].status = "confirmed"
    /\ redelivered = 0

\* item i is the first item of the list that cannot be deducted from db, and
\* it fails on stock: the items before it fit, its product exists, and its
\* quantity exceeds what they left
FirstShort(items, db, i) ==
    /\ i \in DOMAIN items
    /\ Fits(SubSeq(items, 1, i - 1), db)
    /\ items[i].product_id \in DOMAIN db
    /\ QtyOf(SubSeq(items, 1, i), items[i].product_id) > db[items[i].product_id]

\* C6: when a placed order asks for more of a product P than P's current
\* stock (P being the first item the handler cannot deduct) and no database
\* error is raised, no stock changes, the result event is stock-deduction-
\* failed with the single detail (P, insufficient_stock, stock read for P),
\* and the Reconciler applying that event to the order leaves it failed.
C6_InsufficientStock ==
    [][/\ \A i \in DOMAIN worker'.msg.items :
            (WorkerHandles /\ FirstShort(worker'.msg.items, stock_quantity, i)
                /\ NoDatabaseError(worker'))
            => LET P == worker'.msg.items[i].product_id
                   avail == stock_quantity[P]
                            - QtyOf(SubSeq(worker'.msg.items, 1, i - 1), P)
               IN /\ stock_quantity' = stock_quantity
                  /\ worker'.key = StockDeductionFailedKey
                  /\ worker'.body = ResultBody(worker'.msg.order_id, "failed",
                                        <<Detail(P, "insufficient_stock", avail)>>)
       /\ (WorkerPublishes /\ worker.key = StockDeductionFailedKey)
          => /\ stock_quantity' = stock_quantity
             /\ \/ queue' = queue
                \/ queue' = [queue EXCEPT ![StockDeductionFailedKey] =
                                              Append(@, worker.body)]
       /\ LastAppliedStatus(StockDeductionFailedKey, "failed", reconciled', orders')]_vars

\* an order asking for more of P than P has: stock unchanged, the failure
\* event names P with the stock read, and the order has become failed
C6_Witness ==
    /\ worker.pc = "ack"
    /\ worker.key = StockDeductionFailedKey
    /\ Len(worker.msg.items) = 1
    /\ LET P == worker.msg.items[1].product_id
       IN /\ P \in DOMAIN stock_quantity
          /\ stock_quantity[P] = 1
          /\ worker.msg.items[1].quantity = 2
          /\ worker.body.details = <<Detail(P, "insufficient_stock", 1)>>
    /\ reconciled = [key |-> StockDeductionFailedKey, order_id |-> worker.msg.order_id,
                     outcome |-> "updated"]
    /\ worker.msg.order_id \in DOMAIN orders
    /\ orders[worker.msg.order_id].status = "failed"
    /\ redelivered = 0

\* orders and their items are written together
IntakeAtomic(otable, itable, reqs) ==
    /\ \A row \in itable : row.order_id \in DOMAIN otable
    /\ \A o \in DOMAIN otable : ItemsOf(o, itable) # <<>>
    /\ \A r \in ReqIds :
        (reqs[r].pc = "committed" /\ reqs[r].order_id \in DOMAIN otable)
            => ItemsOf(reqs[r].order_id, itable) = reqs[r].req_items

\* C7: a persisted order has all the items of its request (at least one), no
\* order item exists without its order, and an order enters the table with
\* status pending whatever status the request carried.
C7_AtomicIntake ==
    [][/\ IntakeAtomic(orders', order_items', requests')
       /\ \A o \in DOMAIN orders' \ DOMAIN orders : orders'[o].status = "pending"]_vars

\* a request that asked for status "shipped" with two items: the order is
\* persisted pending with both items
C7_Witness ==
    \E r \in ReqIds :
        /\ requests[r].pc = "committed"
        /\ requests[r].req_status = "shipped"
        /\ Len(requests[r].req_items) = 2
        /\ requests[r].order_id \in DOMAIN orders
        /\ orders[requests[r].order_id].status = "pending"
        /\ ItemsOf(requests[r].order_id, order_items) = requests[r].req_items

\* the order.placed messages the broker holds: ready or delivered and unacked
PlacedInBroker(q, w) ==
    Range(q[OrderPlacedKey]) \cup (IF w.pc # "idle" THEN {w.msg} ELSE {})

\* C8: every order.placed event in the broker names an order whose write had
\* committed before the step that published it, carries the status snapshot
\* "pending", and its item list equals the persisted items of that order
\* (as long as the order is persisted).
C8_PublishedAfterCommit ==
    [][\A m \in PlacedInBroker(queue', worker') :
          /\ m.order_id \in committed_ids
          /\ m.status = "pending"
          /\ m.order_id \in DOMAIN orders'
                => m.items = ItemsOf(m.order_id, order_items')]_vars

\* an order.placed event of a two-item order is in the queue
C8_Witness ==
    /\ queue[OrderPlacedKey] # <<>>
    /\ LET m == Head(queue[OrderPlacedKey])
       IN /\ Len(m.items) = 2
          /\ m.order_id \in DOMAIN orders
          /\ m.items = ItemsOf(m.order_id, order_items)
          /\ \E r \in ReqIds : requests[r].pc = "done" /\ requests[r].order_id = m.order_id

\* C9: when the publish of order.placed puts nothing in the broker, the
\* order and its items stay persisted as committed, with status pending,
\* and create_order answers 201 with the created order.
C9_PublishFailureKeepsOrder ==
    [][\A r \in ReqIds :
          (requests[r].pc = "committed" /\ requests'[r].pc = "done" /\ queue' = queue)
          => /\ requests'[r].code = 201
             /\ requests'[r].order_id = requests[r].order_id
             /\ orders' = orders
             /\ order_items' = order_items
             /\ requests[r].order_id \in DOMAIN orders
                   => /\ orders'[requests[r].order_id].status = "pending"
                      /\ ItemsOf(requests[r].order_id, order_items')
                             = requests[r].req_items]_vars

\* the order service has no exchange handle, create_order answered 201, the
\* order is persisted pending with its items and no event exists
C9_Witness ==
    \E r \in ReqIds :
        /\ requests[r].pc = "done"
        /\ requests[r].code = 201
        /\ ~rabbitmq_exchange["order"]
        /\ requests[r].order_id \in DOMAIN orders
        /\ orders[requests[r].order_id].status = "pending"
        /\ ItemsOf(requests[r].order_id, order_items) # <<>>
        /\ queue[OrderPlacedKey] = <<>>
        /\ worker.pc = "idle"

\* C10: a request whose customer lookup answers 404 is rejected with no
\* order row, no item row and no event created.
C10_UnknownCustomerRejected ==
    [][\A r \in ReqIds :
          (requests[r].pc = "new" /\ requests'[r].lookup = "404")
          => /\ requests'[r].pc = "done"
             /\ requests'[r].code = 400
             /\ orders' = orders
             /\ order_items' = order_items
             /\ committed_ids' = committed_ids
             /\ next_order_id' = next_order_id
             /\ queue' = queue]_vars

\* a request was rejected on a 404 of the customer lookup; nothing exists
C10_Witness ==
    \E r \in ReqIds :
        /\ requests[r].pc = "done"
        /\ requests[r].lookup = "404"
        /\ requests[r].code = 400
        /\ requests[r].order_id = 0
        /\ orders = EmptyFn
        /\ order_items = {}
        /\ \A k \in RoutingKeys : queue[k] = <<>>

\* the answer create_order gives for each way a request is turned down before
\* step 2; "" is the empty item list, turned down before the lookup
RejectedWith(lookup, code) ==
    \/ lookup = "" /\ code \in 400..499
    \/ lookup = "404" /\ code \in 400..499
    \/ lookup = "request_error" /\ code = 503
    \/ lookup \in {"http_error", "exception"} /\ code = 500

\* C11: a request turned down for an empty item list, for a 404 of the
\* customer lookup, for an unreachable customer service (503) or for any
\* other lookup error (500) is answered in the step that leaves "new", and
\* that step persists no order or item, uses no order id and publishes no
\* event.
C11_RejectedBeforeCommit ==
    [][\A r \in ReqIds :
          (requests[r].pc = "new" /\ requests'[r].pc # "new"
              /\ requests'[r].lookup # "200")
          => /\ requests'[r].pc = "done"
             /\ RejectedWith(requests'[r].lookup, requests'[r].code)
             /\ requests'[r].order_id = 0
             /\ orders' = orders
             /\ order_items' = order_items
             /\ committed_ids' = committed_ids
             /\ next_order_id' = next_order_id
             /\ queue' = queue]_vars

\* a request was answered 503 because the customer service was unreachable,
\* while both consumers were connected; no order and no event exists
C11_Witness ==
    \E r \in ReqIds :
        /\ requests[r].pc = "done"
        /\ requests[r].lookup = "request_error"
        /\ requests[r].code = 503
        /\ rabbitmq_exchange["order"]
        /\ OrderPlacedKey \in bound
        /\ orders = EmptyFn
        /\ order_items = {}
        /\ committed_ids = {}
        /\ \A k \in RoutingKeys : queue[k] = <<>>

\* a step of the Reconciler: the head of a result queue is consumed, or it
\* stays because the acknowledgement is lost (which the worker's own
\* deliveries do not share: the worker then returns to idle)
ReconcilerStep ==
    \/ \E k \in {StockDeductedKey, StockDeductionFailedKey} :
          queue[k] # <<>> /\ queue'[k] = Tail(queue[k])
    \/ queue' = queue /\ worker' = worker /\ redelivered' = redelivered + 1

\* C12: when the Reconciler handles a result event (of either queue) whose
\* order id names no persisted order, no order or item is written, the
\* handler ends in one of its logged outcomes (no error leaves it), the
\* message leaves its queue on the acknowledgement and enters no other queue
\* (it stays only when the acknowledgement is lost in transit), and the
\* consumer remains subscribed for the messages that follow.
C12_MissingOrderDropped ==
    [][ReconcilerStep =>
        LET key == reconciled'.key
            body == Head(queue[key])
        IN (body.order_id # 0 /\ body.order_id \notin DOMAIN orders)
           => /\ orders' = orders
              /\ order_items' = order_items
              /\ reconciled'.order_id = body.order_id
              /\ reconciled'.outcome \in {"non_existent_order", "database_error"}
              /\ \/ /\ queue' = [queue EXCEPT ![key] = Tail(@)]
                    /\ redelivered' = redelivered
                 \/ /\ queue' = queue
                    /\ redelivered' = redelivered + 1
              /\ started'["order"] /\ rabbitmq_exchange'["order"]]_vars

\* the order was deleted before its result event arrived: the event was
\* logged as naming a non-existent order and acknowledged, no order exists
C12_Witness ==
    /\ reconciled.outcome = "non_existent_order"
    /\ reconciled.key = StockDeductionFailedKey
    /\ reconciled.order_id \in committed_ids
    /\ orders = EmptyFn
    /\ order_items = {}
    /\ redelivered = 0
    /\ \A k \in RoutingKeys : queue[k] = <<>>

\* a step in which process_message handled a message: a delivery of a result
\* queue, or a change of what the Reconciler last handled or of an order
HandlesResult ==
    \/ ReconcilerStep
    \/ reconciled' # reconciled
    \/ orders' # orders

\* C13: for a persisted order (and no database error), process_message
\* writes status confirmed on routing key product.stock.deducted and failed
\* on product.stock.deduction.failed, whatever the status was; on any other
\* routing key it leaves the order table as it is and commits nothing; a
\* message without order_id (or whose body does not decode at all) is
\* dropped with no write.  No order item is touched.
C13_ReconcilerWrites ==
    [][HandlesResult =>
        LET key == reconciled'.key
            oid == reconciled'.order_id
            out == reconciled'.outcome
        IN /\ (oid \in DOMAIN orders /\ out # "database_error")
              => /\ key = StockDeductedKey
                    => /\ orders' = [orders EXCEPT ![oid].status = "confirmed"]
                       /\ out = "updated"
                 /\ key = StockDeductionFailedKey
                    => /\ orders' = [orders EXCEPT ![oid].status = "failed"]
                       /\ out = "updated"
                 /\ key \notin {StockDeductedKey, StockDeductionFailedKey}
                    => /\ orders' = orders
                       /\ out = "unknown_routing_key"
           /\ oid = 0 => (orders' = orders /\ out \in {"no_order_id", "decode_error"})
           /\ order_items' = order_items]_vars

\* process_message was called for the persisted (confirmed) order with a
\* routing key that is neither result key: the order is still confirmed
C13_Witness ==
    /\ reconciled.outcome = "unknown_routing_key"
    /\ reconciled.key \notin RoutingKeys
    /\ reconciled.order_id \in DOMAIN orders
    /\ orders[reconciled.order_id].status = "confirmed"

\* the sum of the stored item_total values
RECURSIVE SumItemTotals(_)
SumItemTotals(rows) ==
    IF rows = <<>> THEN 0
    ELSE Head(rows).item_total + SumItemTotals(Tail(rows))

\* C14: for every order create_order stores, the stored total_amount is the
\* sum of the stored item_total values and each stored item_total is the
\* item's quantity times its stored price_at_purchase, to the cent.
C14_TotalsExact ==
    amounts.pc = "stored"
    => /\ amounts.total_amount = SumItemTotals(amounts.items)
       /\ \A i \in DOMAIN amounts.items :
            amounts.items[i].item_total
                = amounts.items[i].quantity * amounts.items[i].price_at_purchase

\* what is left of the loop: it goes down with every step of the function
ConnectRank(c) ==
    IF c.pc = "returned" THEN 0
    ELSE 2 * (max_retries - c.i) - (IF c.pc = "sleep" THEN 1 ELSE 0)

\* the position c of connect_to_rabbitmq agrees with the claim; handle is
\* the service's exchange handle
ConnectBounded(c, handle) ==
    /\ c.attempts <= max_retries
    /\ c.pc \in {"attempt", "sleep", "returned"}
    /\ c.pc = "attempt" => (c.attempts = c.i /\ c.attempts < max_retries)
    /\ c.waited = retry_delay_seconds * c.i
    /\ c.pc # "returned" => ~handle
    /\ c.pc = "returned"
       => /\ c.result \in BOOLEAN
          /\ c.result <=> handle
          /\ c.result => (c.connection /\ c.channel)
          /\ ~c.result => c.attempts = max_retries
          /\ c.waited = retry_delay_seconds * (c.attempts - 1)

\* C15: connect_to_rabbitmq makes at most 10 attempts and every step brings
\* it closer to its return; it returns True in the attempt that first
\* succeeds, with the exchange handle set, and makes no attempt after it; it
\* returns False after the 10th failed attempt; it has slept the fixed delay
\* once between two attempts and not after the last one; it ends in a return
\* of True or False, never in an exception.
C15_BoundedConnect ==
    [][\A svc \in Services :
          /\ ConnectBounded(connecting'[svc], rabbitmq_exchange'[svc])
          /\ connecting[svc].pc = "returned" => connecting'[svc] = connecting[svc]
          /\ connecting'[svc] # connecting[svc]
             => /\ ConnectRank(connecting'[svc]) < ConnectRank(connecting[svc])
                /\ ConnectRank(connecting'[svc]) >= 0
          /\ (connecting'[svc].pc = "returned" /\ connecting'[svc].result
                /\ connecting[svc].pc # "returned")
             => /\ connecting[svc].pc = "attempt"
                /\ connecting'[svc].attempts = connecting[svc].attempts + 1]_vars

\* one service returned False after ten failed attempts and nine sleeps,
\* the other returned True in its third attempt after two sleeps
C15_Witness ==
    \E s \in Services, t \in Services :
        /\ connecting[s].pc = "returned"
        /\ ~connecting[s].result
        /\ connecting[s].attempts = max_retries
        /\ connecting[s].waited = retry_delay_seconds * (max_retries - 1)
        /\ started[s] /\ ~rabbitmq_exchange[s]
        /\ connecting[t].pc = "returned"
        /\ connecting[t].result
        /\ connecting[t].attempts = 3
        /\ connecting[t].waited = 2 * retry_delay_seconds
        /\ started[t] /\ rabbitmq_exchange[t]

\* the tables of both services are as they were
DatabaseUnchanged ==
    /\ stock_quantity' = stock_quantity
    /\ next_product_id' = next_product_id
    /\ orders' = orders
    /\ order_items' = order_items
    /\ next_order_id' = next_order_id
    /\ next_item_id' = next_item_id

\* what a call publish_event(key, msg) may do to the broker: route the
\* message, or nothing; nothing when the exchange handle is absent
PublishedOrNot(handle, key, msg) ==
    /\ queue' = queue \/ queue' = Route(queue, bound, key, msg)
    /\ ~handle => queue' = queue

\* C16: a call of publish_event, by create_order or by the worker, changes
\* no table; it routes the message or, with the exchange handle absent or
\* the broker failing, leaves the broker as it is; in every case the caller
\* goes on as after a successful publish: create_order answers 201 with the
\* order, the worker goes on to acknowledge its message.
C16_PublishNeverRaises ==
    [][/\ \A r \in ReqIds :
            (requests[r].pc = "committed" /\ requests'[r] # requests[r])
            => /\ DatabaseUnchanged
               /\ PublishedOrNot(rabbitmq_exchange["order"], OrderPlacedKey,
                                 requests[r].event)
               /\ requests'[r].pc = "done"
               /\ requests'[r].code = 201
               /\ requests'[r].order_id = requests[r].order_id
       /\ (worker.pc = "publish" /\ worker' # worker)
            => /\ DatabaseUnchanged
               /\ PublishedOrNot(rabbitmq_exchange["product"], worker.key, worker.body)
               /\ worker' = [worker EXCEPT !.pc = "ack"]]_vars

\* the worker committed a deduction and its publish of the success event
\* failed at the broker (the result queue is bound, empty and nothing was
\* consumed): the worker is about to acknowledge, the deduction stands
C16_Witness ==
    /\ worker.pc = "ack"
    /\ worker.key = StockDeductedKey
    /\ rabbitmq_exchange["product"]
    /\ StockDeductedKey \in bound
    /\ queue[StockDeductedKey] = <<>>
    /\ reconciled = NothingReconciled
    /\ redelivered = 0
    /\ \E p \in DOMAIN stock_quantity :
        QtyOf(worker.msg.items, p) = MaxQty /\ stock_quantity[p] = 0

\* a deduction for order oid has been committed before: its success event is
\* in the result queue or has confirmed the order
AlreadyDeducted(oid) ==
    \/ \E i \in DOMAIN queue[StockDeductedKey] :
          queue[StockDeductedKey][i].order_id = oid
    \/ oid \in DOMAIN orders /\ orders[oid].status = "confirmed"

\* C17: the worker handles an order.placed message of an order it has
\* already deducted like a first delivery: when the stock still suffices (and
\* no database error is raised) every item's quantity is deducted once more
\* and a second success event is built.
C17_DeductedTwice ==
    [][(/\ WorkerHandles
        /\ AlreadyDeducted(worker'.msg.order_id)
        /\ Fits(worker'.msg.items, stock_quantity)
        /\ NoDatabaseError(worker'))
       => /\ DeductedAll(worker'.msg.items, stock_quantity, stock_quantity')
          /\ stock_quantity' # stock_quantity
          /\ worker'.key = StockDeductedKey]_vars

\* the message of an order for one unit was delivered twice (the first
\* acknowledgement was lost): the success event of the first delivery is
\* still in the queue, the second delivery has deducted again and the
\* product, which can hold two units, is at zero
C17_Witness ==
    /\ redelivered = 1
    /\ worker.pc = "publish"
    /\ worker.key = StockDeductedKey
    /\ worker.msg.items = <<[product_id |-> 1, quantity |-> 1]>>
    /\ queue[StockDeductedKey]
           = <<ResultBody(worker.msg.order_id, "success", <<>>)>>
    /\ 1 \in DOMAIN stock_quantity
    /\ stock_quantity[1] = 0

\* order o was answered 201 and nothing of its saga exists: no order.placed
\* message for it is in the queue or in the worker's hands, no result event
\* names it, the Reconciler has handled nothing for it, and the order, while
\* persisted, is pending
Untriggered(o, reqs, q, w, rec, otable) ==
    /\ \E r \in ReqIds : reqs[r].code = 201 /\ reqs[r].order_id = o
    /\ \A k \in RoutingKeys : \A i \in DOMAIN q[k] : q[k][i].order_id # o
    /\ w.pc # "idle" => w.msg.order_id # o
    /\ rec.order_id # o
    /\ o \in DOMAIN otable => otable[o].status = "pending"

\* C18: when create_order returns from a publish of order.placed that put
\* nothing in the broker, the committed order is untriggered, and an
\* untriggered order stays untriggered in every later step: no component
\* publishes its event again, the worker never handles (so never deducts
\* for) it, no result event for it appears, and it stays pending as long as
\* it is persisted.
C18_UntriggeredForever ==
    [][/\ \A r \in ReqIds :
            (/\ requests[r].pc = "committed"
             /\ requests'[r].code = 201
             /\ queue' = queue)
            => Untriggered(requests[r].order_id, requests', queue', worker',
                           reconciled', orders')
       /\ \A o \in committed_ids :
            Untriggered(o, requests, queue, worker, reconciled, orders)
            => Untriggered(o, requests', queue', worker', reconciled', orders')]_vars

\* both services are connected with their queues bound and the product is
\* in stock, but the publish of order.placed failed at the broker: the order
\* was answered 201, is pending, and nothing is in flight for it
C18_Witness ==
    \E r \in ReqIds :
        /\ requests[r].pc = "done"
        /\ requests[r].code = 201
        /\ rabbitmq_exchange["order"] /\ rabbitmq_exchange["product"]
        /\ bound = RoutingKeys
        /\ requests[r].order_id \in DOMAIN orders
        /\ orders[requests[r].order_id].status = "pending"
        /\ \A row \in order_items :
              /\ row.product_id \in DOMAIN stock_quantity
              /\ stock_quantity[row.product_id] = MaxStock
        /\ \A k \in RoutingKeys : queue[k] = <<>>
        /\ worker = IdleWorker
        /\ reconciled = NothingReconciled
        /\ redelivered = 0

\* create_order answered 201 for order o
Accepted(o) ==
    \E r \in ReqIds :
        requests[r].pc = "done" /\ requests[r].code = 201 /\ requests[r].order_id = o

\* order o has left pending for confirmed or failed
Settled(o) == o \in DOMAIN orders /\ orders[o].status \in {"confirmed", "failed"}

\* the Reconciler hit a database error on a result event of order o
ReconcilerFailedOn(o) ==
    reconciled.order_id = o /\ reconciled.outcome = "database_error"

FailureReasons == {"product_not_found", "insufficient_stock", "database_error"}

\* C20: whenever the handling of an order.placed message fails (a product is
\* missing, the stock is short, an item lacks its data, the database raises),
\* no stock changes and the stock-deduction-failed event built for the order
\* has status "failed" and a details list that is not empty, each entry
\* carrying a reason.
C20_FailureCarriesReason ==
    [][(WorkerHandles /\ worker'.key = StockDeductionFailedKey)
       => /\ stock_quantity' = stock_quantity
          /\ worker'.body.order_id = worker'.msg.order_id
          /\ worker'.body.status = "failed"
          /\ worker'.body.details # <<>>
          /\ \A i \in DOMAIN worker'.body.details :
                worker'.body.details[i].reason \in FailureReasons]_vars

\* C21: a low-stock alert is logged only for a deduction that is committed:
\* no alert is logged in the handling of an order whose deduction is rolled
\* back; an alert names a product with the stock the deduction left, strictly
\* below 5, and that is the stock committed or lowered further by a later
\* item of the order; the result event is one of the two result events and
\* none of its details is about the alert.
C21_AlertAfterCommit ==
    [][WorkerHandles =>
        /\ worker'.alerts # <<>> => worker'.key = StockDeductedKey
        /\ \A i \in DOMAIN worker'.alerts :
              /\ worker'.alerts[i].stock_quantity < RESTOCK_THRESHOLD
              /\ worker'.key = StockDeductedKey
                    => stock_quantity'[worker'.alerts[i].product_id]
                           <= worker'.alerts[i].stock_quantity
        /\ worker'.key \in {StockDeductedKey, StockDeductionFailedKey}
        /\ \A i \in DOMAIN worker'.body.details :
              worker'.body.details[i].reason \in FailureReasons]_vars

\* each consumer takes the next message of its queue as soon as it is free
ConsumerReady ==
    /\ (started["product"] /\ rabbitmq_exchange["product"]
           /\ worker.pc = "idle" /\ queue[OrderPlacedKey] # <<>>)
       => ENABLED WorkerProcess
    /\ worker.pc \in {"idle", "publish", "ack"}
    /\ \A k \in ConsumerKeys("order") :
          (started["order"] /\ rabbitmq_exchange["order"] /\ queue[k] # <<>>)
          => ENABLED Reconcile(k)

\* what process_message logs for a message it cannot apply
ReconcilerErrors == {"decode_error", "no_order_id", "database_error",
                     "non_existent_order", "unknown_routing_key"}

\* C22: whatever a message is (undecodable, without its fields, hit by a
\* database error), its handler runs to its end: the worker goes from the
\* message to the publish (to the acknowledgement at once when the body does
\* not decode, with no table touched), from the publish to the
\* acknowledgement, and from there back to waiting for the next message;
\* process_message ends in one of its logged outcomes with no write when it
\* is an error; no step takes a consumer off its queue, and a free consumer
\* with a message ready always takes it.
C22_ErrorsKeepConsumers ==
    /\ []ConsumerReady
    /\ [][/\ (worker.pc = "idle" /\ worker' # worker)
             => /\ worker'.pc \in {"publish", "ack"}
                /\ worker'.pc = "ack"
                      => (worker'.msg = NotJsonMsg /\ stock_quantity' = stock_quantity)
          /\ (worker.pc = "publish" /\ worker' # worker) => worker'.pc = "ack"
          /\ (worker.pc = "ack" /\ worker' # worker) => worker' = IdleWorker
          /\ (ReconcilerStep \/ reconciled' # reconciled)
             => /\ reconciled'.outcome \in ReconcilerErrors \cup {"updated"}
                /\ reconciled'.outcome \in ReconcilerErrors => orders' = orders
          /\ started' = started
          /\ rabbitmq_exchange' = rabbitmq_exchange
          /\ bound' = bound]_vars

\* the first delivery of a message hit a database error (its failure event
\* is in the result queue), the acknowledgement was lost, and the worker has
\* handled the second delivery, this time to a committed deduction
C22_Witness ==
    /\ redelivered = 1
    /\ worker.pc = "publish"
    /\ worker.key = StockDeductedKey
    /\ worker.msg.items # <<>>
    /\ queue[StockDeductionFailedKey]
           = <<ResultBody(worker.msg.order_id, "failed", DatabaseErrorDetails)>>
    /\ queue[StockDeductedKey] = <<>>

\* sequence t is sequence s with one message added at its end
Appended(s, t) == Len(t) = Len(s) + 1 /\ SubSeq(t, 1, Len(s)) = s

\* C23: the deliveries of a queue are handled one at a time.  While the
\* worker is in the handling of a message (from its transaction to its
\* acknowledgement) no other message leaves the order.placed queue and the
\* handling stays that of the same message; a handling starts with the head
\* of the queue; when a result queue loses a message, it loses its head, in
\* a single step that is the whole handling of that message (process_message
\* has no suspension before its acknowledgement) and touches no other queue.
\* Steps of the Reconciler and of request handlers do occur while the worker
\* is suspended in a handling.
C23_OneAtATime ==
    [][/\ worker.pc # "idle"
          => /\ \/ queue'[OrderPlacedKey] = queue[OrderPlacedKey]
                \/ Appended(queue[OrderPlacedKey], queue'[OrderPlacedKey])
                \/ /\ queue'[OrderPlacedKey] = <<worker.msg>> \o queue[OrderPlacedKey]
                   /\ worker.pc = "ack" /\ worker' = IdleWorker
             /\ worker'.pc # "idle" => worker'.msg = worker.msg
       /\ WorkerHandles
          => /\ queue[OrderPlacedKey] # <<>>
             /\ worker'.msg = Head(queue[OrderPlacedKey])
             /\ queue'[OrderPlacedKey] = Tail(queue[OrderPlacedKey])
       /\ \A k \in ConsumerKeys("order") :
            \/ queue'[k] = queue[k]
            \/ /\ Appended(queue[k], queue'[k])
               /\ worker.pc = "publish" /\ worker.key = k
            \/ /\ queue[k] # <<>>
               /\ queue'[k] = Tail(queue[k])
               /\ reconciled'.key = k
               /\ reconciled'.order_id = Head(queue[k]).order_id
               /\ \A k2 \in RoutingKeys \ {k} : queue'[k2] = queue[k2]
               /\ worker' = worker]_vars

\* the worker is suspended before the acknowledgement of a first delivery,
\* the Reconciler has already applied the result event published in this
\* handling, the product's stock is used up, and the order.placed message
\* of another order is waiting in the queue
C23_Witness ==
    /\ worker.pc = "ack"
    /\ worker.key = StockDeductedKey
    /\ redelivered = 0
    /\ reconciled = [key |-> StockDeductedKey, order_id |-> worker.msg.order_id,
                     outcome |-> "updated"]
    /\ orders[worker.msg.order_id].status = "confirmed"
    /\ Len(queue[OrderPlacedKey]) = 1
    /\ Head(queue[OrderPlacedKey]).order_id # worker.msg.order_id
    /\ stock_quantity[1] = 0

\* C24: a deduct-stock call for product p with a positive quantity q answers
\* 404 with nothing changed when p does not exist; 400 with p's stock
\* unchanged when the stock is below q; otherwise it commits stock - q and
\* answers 200 with the updated product (when the commit raises: 500 with
\* nothing changed); no other product changes, and the stock changes in no
\* other way.
C24_DeductStockEndpoint ==
    [][/\ deduct_answer' # deduct_answer
          => LET p == deduct_answer'.product_id
                 q == deduct_answer'.quantity
                 code == deduct_answer'.code
             IN /\ q > 0
                /\ p \notin DOMAIN stock_quantity
                      => (code = 404 /\ stock_quantity' = stock_quantity)
                /\ (p \in DOMAIN stock_quantity /\ stock_quantity[p] < q)
                      => (code = 400 /\ stock_quantity' = stock_quantity)
                /\ (p \in DOMAIN stock_quantity /\ stock_quantity[p] >= q)
                      => \/ /\ code = 200
                            /\ stock_quantity'
                                   = [stock_quantity EXCEPT ![p] = @ - q]
                            /\ deduct_answer'.stock_quantity = stock_quantity[p] - q
                         \/ /\ code = 500
                            /\ stock_quantity' = stock_quantity
                /\ DOMAIN stock_quantity' = DOMAIN stock_quantity
                /\ \A p2 \in DOMAIN stock_quantity \ {p} :
                      stock_quantity'[p2] = stock_quantity[p2]
       /\ stock_quantity' # stock_quantity => deduct_answer' # deduct_answer]_vars

\* a call for exactly the stock of product 2 was answered 200 with stock 0;
\* product 1 has its full stock
C24_Witness ==
    /\ deduct_answer = [product_id |-> 2, quantity |-> MaxQty, code |-> 200,
                        stock_quantity |-> 0]
    /\ 2 \in DOMAIN stock_quantity
    /\ stock_quantity[2] = 0
    /\ stock_quantity[1] = MaxStock

\* C25: in the synchronous mode, when the deduction call of every item was
\* answered 200 the order and its items are persisted in one write with
\* status confirmed (unless that commit fails, an internal error), an order
\* is persisted in no other case, and no order of this mode is ever pending.
C25_SyncConfirmed ==
    /\ \A o \in DOMAIN orders :
          /\ orders[o].status = "confirmed"
          /\ sync.pc = "done" /\ sync.code = 201 /\ sync.order_id = o
          /\ ItemsOf(o, order_items) = sync.items
    /\ sync.pc \in {"new", "deduct", "persist"} => orders = EmptyFn
    /\ sync.pc = "persist" => sync.deducted = sync.items
    /\ sync.pc = "done"
          => /\ sync.deducted = sync.items => sync.code \in {201, 500}
             /\ sync.code = 201
                   => /\ sync.deducted = sync.items
                      /\ sync.order_id \in DOMAIN orders
             /\ sync.code # 201 => orders = EmptyFn

\* a two-item order was created in synchronous mode: both calls succeeded and
\* the order is there, confirmed, with its two items
C25_Witness ==
    /\ sync.pc = "done" /\ sync.code = 201
    /\ Len(sync.items) = 2
    /\ sync.items[1].product_id # sync.items[2].product_id
    /\ sync.order_id \in DOMAIN orders
    /\ orders[sync.order_id].status = "confirmed"
    /\ Len(ItemsOf(sync.order_id, order_items)) = 2

\* C26: the synchronous mode deducts one item per step, and a call answered
\* 200 has committed exactly that item's quantity before the next item is
\* looked at; the step in which a call fails keeps what the earlier items of
\* the order deducted (the compensation step only names them), and no step
\* of the system ever raises a stock.
C26_SyncNotAllOrNothing ==
    [][/\ DOMAIN stock_quantity' = DOMAIN stock_quantity
       /\ \A p \in DOMAIN stock_quantity : stock_quantity'[p] <= stock_quantity[p]
       /\ (sync.pc = "deduct" /\ sync' # sync)
             => LET item == sync.items[sync.idx]
                    less == [stock_quantity EXCEPT
                                ![item.product_id] = @ - item.quantity]
                IN /\ sync'.pc # "done"
                      => /\ item.product_id \in DOMAIN stock_quantity
                         /\ stock_quantity' = less
                         /\ sync'.deducted = Append(sync.deducted, item)
                         /\ sync'.idx = sync.idx + 1
                         /\ deduct_answer'.code = 200
                         /\ orders' = orders
                   /\ sync'.pc = "done"
                      => /\ sync'.code \in {404, 400, 500, 503}
                         /\ sync'.deducted = sync.deducted
                         /\ sync'.compensated = sync.deducted
                         /\ orders' = orders
                         /\ \/ stock_quantity' = stock_quantity
                            \/ /\ sync'.code = 503
                               /\ item.product_id \in DOMAIN stock_quantity
                               /\ stock_quantity' = less]_vars

\* the first item took the whole stock of product 1, the call for the second
\* item was answered 404, the request ended without an order, and product 1
\* is still at 0
C26_Witness ==
    /\ sync.pc = "done" /\ sync.code = 404
    /\ sync.deducted = <<[product_id |-> 1, quantity |-> MaxQty]>>
    /\ sync.compensated = sync.deducted
    /\ Len(sync.items) = 2
    /\ stock_quantity[1] = 0
    /\ orders = EmptyFn

\* C27: the queues of the exchange are those of three routing keys, bound by
\* their consumers only: order.placed by the worker, product.stock.deducted
\* and product.stock.deduction.failed by the Reconciler.  Order Intake
\* publishes under order.placed only; the worker publishes under one of the
\* Reconciler's two keys only; and once the Reconciler's queues are bound a
\* result event the worker publishes is appended to the queue of its key
\* (unless the publish itself fails, which leaves every queue as it was).
\* Apart from these publishes a queue grows only when the broker delivers an
\* unacknowledged message of that queue again.
C27_RoutingKeysMatch ==
    /\ [](/\ DOMAIN queue = RoutingKeys
          /\ RoutingKeys = ConsumerKeys("product") \cup ConsumerKeys("order")
          /\ Cardinality(RoutingKeys) = 3
          /\ ConsumerKeys("product") = {OrderPlacedKey}
          /\ bound \subseteq RoutingKeys
          /\ \A svc \in Services :
                /\ rabbitmq_exchange[svc] => ConsumerKeys(svc) \subseteq bound
                /\ ConsumerKeys(svc) \cap bound # {} => rabbitmq_exchange[svc]
          /\ worker.pc \in {"publish", "ack"} /\ worker.msg # NotJsonMsg
                => worker.key \in ConsumerKeys("order"))
    /\ [][/\ \A r \in ReqIds :
                (requests[r].pc = "committed" /\ requests'[r].pc # "committed")
                   => \/ queue' = queue
                      \/ /\ OrderPlacedKey \in bound
                         /\ queue' = [queue EXCEPT ![OrderPlacedKey] =
                                         Append(@, requests[r].event)]
          /\ WorkerPublishes
                => \/ queue' = queue
                   \/ /\ worker.key \in bound
                      /\ queue' = [queue EXCEPT ![worker.key] =
                                      Append(@, worker.body)]
          /\ (WorkerPublishes /\ ConsumerKeys("order") \subseteq bound)
                => /\ worker.key \in bound
                   /\ Route(queue, bound, worker.key, worker.body)[worker.key]
                         = Append(queue[worker.key], worker.body)
          /\ \A k \in RoutingKeys :
                Len(queue'[k]) > Len(queue[k])
                   => \/ redelivered' = redelivered + 1
                      \/ IF k = OrderPlacedKey
                         THEN \E r \in ReqIds : requests[r].pc = "committed"
                         ELSE WorkerPublishes /\ worker.key = k]_vars

\* the failure event of order 1 published by the worker waits in the
\* Reconciler's queue of that key, the other result queue is empty
C27_Witness ==
    /\ worker.pc = "ack"
    /\ worker.key = StockDeductionFailedKey
    /\ queue[StockDeductionFailedKey] = <<worker.body>>
    /\ queue[StockDeductedKey] = <<>>
    /\ worker.body.order_id = 1
    /\ 1 \in DOMAIN orders

C29_ShippingAddress ==
    [][\A r \in ReqIds :
          (requests[r].pc = "new" /\ requests'[r].pc = "committed")
             => LET oid == requests'[r].order_id
                    req == requests'[r].req_address
                    cust == requests'[r].cust_address
                    kept == orders'[oid].shipping_address
                IN /\ oid \notin DOMAIN orders /\ oid \in DOMAIN orders'
                   /\ (req \in {Null, ""} /\ cust \notin {Null, ""}) => kept = cust
                   /\ req \notin {Null, ""} => kept = req
                   /\ (req \in {Null, ""} /\ cust \in {Null, ""}) => kept = req]_vars

\* the request had no address, the customer has one, and the pending order
\* carries the customer's
C29_Witness ==
    \E r \in ReqIds :
        /\ requests[r].pc = "committed"
        /\ requests[r].req_address = Null
        /\ requests[r].cust_address = "7 Customer Street"
        /\ requests[r].order_id \in DOMAIN orders
        /\ orders[requests[r].order_id].shipping_address = "7 Customer Street"

\* where startup_event of a service stands with its database loop
DbLoopBounded(d) ==
    /\ d.attempts <= max_retries
    /\ d.attempts = d.i + (IF d.pc \in {"try"} THEN 0 ELSE 1)
    /\ d.pc \in {"try", "sleep"} => d.attempts < max_retries
    /\ d.pc = "done" => d.last = "ok"
    /\ d.pc = "exited"
          => \/ d.last = "other_error"
             \/ d.last = "operational_error" /\ d.attempts = max_retries
    /\ (d.last = "operational_error" /\ d.attempts = max_retries) => d.pc = "exited"
    /\ d.last = "other_error" => d.pc = "exited"

\* C30: the database loop of startup_event makes at most 10 attempts; it
\* ends the process after the 10th connection error and at once on any other
\* error, and a process that ended never connects to the broker, never
\* starts and serves nothing.  connect_to_rabbitmq is entered only after the
\* loop succeeded; when it returns False the process is not ended: startup
\* completes, the service is started without exchange handle and answers
\* requests, and its consumer has bound no queue; when it returns True the
\* consumer's queues are bound.  A started service stays started.
C30_StartupFailures ==
    /\ [](\A svc \in Services :
            LET d == db_init[svc]
                c == connecting[svc]
            IN /\ DbLoopBounded(d)
               /\ d.pc # "done" => (c = NotConnecting /\ ~started[svc])
               /\ d.pc = "exited" => ~ENABLED (DbAttempt(svc) \/ DbSleep(svc)
                                        \/ ConnectAttempt(svc) \/ ConnectReturn(svc))
               /\ (c.pc = "returned" /\ ~started[svc]) => ENABLED ConnectReturn(svc)
               /\ started[svc]
                     => /\ d.pc = "done" /\ c.pc = "returned"
                        /\ rabbitmq_exchange[svc] = c.result
                        /\ c.result => ConsumerKeys(svc) \subseteq bound
                        /\ ~c.result => ConsumerKeys(svc) \cap bound = {}
               /\ (started["product"] /\ next_product_id <= NumProducts)
                     => ENABLED CreateProduct
               /\ started["order"]
                     => \A r \in ReqIds :
                           requests[r].pc = "new"
                              => ENABLED (CreateOrderEmpty(r) \/ CreateOrderWrite(r)))
    /\ [][\A svc \in Services :
            /\ db_init[svc].pc = "exited" => db_init'[svc] = db_init[svc]
            /\ started[svc] => started'[svc]
            /\ db_init'[svc].pc = "exited" => connecting'[svc] = connecting[svc]]_vars

\* the product service ended after ten connection errors of its database;
\* the order service got its tables at the second attempt, was refused by
\* the broker ten times, started without consumer and answered a request
C30_Witness ==
    /\ db_init["product"].pc = "exited"
    /\ db_init["product"].attempts = max_retries
    /\ db_init["product"].waited = retry_delay_seconds * (max_retries - 1)
    /\ ~started["product"]
    /\ db_init["order"].pc = "done"
    /\ db_init["order"].attempts = 2
    /\ connecting["order"].attempts = max_retries
    /\ ~connecting["order"].result
    /\ started["order"] /\ ~rabbitmq_exchange["order"]
    /\ bound = {}
    /\ requests[1].pc = "done" /\ requests[1].code = 400

\* C31: the handling of an order.placed delivery that decodes to an object
\* ends in one result event to publish, under one of the two result keys:
\* product.stock.deducted (status success) exactly when the transaction
\* committed, the stock then being lowered by every item of the message;
\* product.stock.deduction.failed (status failed) otherwise, the stock then
\* being what it was.  The event is handed to the exchange in one publish
\* step, which appends it to the queue of its key or (a failed publish) to
\* none, and the delivery is over after it: no second event is built or
\* published for it.
C31_OneResultEvent ==
    [][/\ (WorkerHandles /\ worker'.msg # NotJsonMsg)
             => /\ worker'.msg = Head(queue[OrderPlacedKey])
                /\ worker'.key \in {StockDeductedKey, StockDeductionFailedKey}
                /\ worker'.body.order_id = worker'.msg.order_id
                /\ worker'.key = StockDeductedKey
                      => /\ worker'.body.status = "success"
                         /\ Fits(worker'.msg.items, stock_quantity)
                         /\ DeductedAll(worker'.msg.items, stock_quantity,
                                        stock_quantity')
                /\ worker'.key = StockDeductionFailedKey
                      => /\ worker'.body.status = "failed"
                         /\ stock_quantity' = stock_quantity
                /\ \A k \in ConsumerKeys("order") : queue'[k] = queue[k]
       /\ worker.pc = "publish"
             => /\ worker'.pc \in {"publish", "ack"}
                /\ worker'.pc = "ack"
                      => /\ worker'.key = worker.key /\ worker'.body = worker.body
                         /\ stock_quantity' = stock_quantity
                         /\ \/ queue' = queue
                            \/ queue' = [queue EXCEPT ![worker.key] =
                                             Append(@, worker.body)]
       /\ worker.pc = "ack"
             => /\ worker'.pc \in {"ack", "idle"}
                /\ \A k \in ConsumerKeys("order") :
                      Len(queue'[k]) <= Len(queue[k])
                /\ worker'.pc = "idle" => stock_quantity' = stock_quantity
       /\ (worker.pc = "idle" /\ worker'.pc = "ack") => worker'.msg = NotJsonMsg]_vars

\* the success event of a two-item message is in the queue of its key, the
\* failure queue is empty, and both products are down to 0
C31_Witness ==
    /\ worker.pc = "ack"
    /\ worker.key = StockDeductedKey
    /\ Len(worker.msg.items) = 2
    /\ queue[StockDeductedKey] = <<worker.body>>
    /\ queue[StockDeductionFailedKey] = <<>>
    /\ DOMAIN stock_quantity = {1, 2}
    /\ stock_quantity[1] = 0 /\ stock_quantity[2] = 0
    /\ worker.msg.items[1].product_id # worker.msg.items[2].product_id

\* if not product_id or not quantity: the item lacks its data
ItemInvalid(item) == item.product_id = 0 \/ item.quantity = 0

\* item i cannot be deducted from the table db after the items before it
ItemFails(items, db, i) ==
    \/ ItemInvalid(items[i])
    \/ items[i].product_id \notin DOMAIN db
    \/ QtyOf(SubSeq(items, 1, i), items[i].product_id) > db[items[i].product_id]

\* item i is the first of the list that cannot be deducted
FirstFailing(items, db, i) ==
    /\ i \in DOMAIN items
    /\ ItemFails(items, db, i)
    /\ \A j \in 1..(i - 1) : ~ItemFails(items, db, j)

\* C32: when the handling of an order.placed message ends in the failure
\* event and the transaction did not raise, the list has a first item that
\* cannot be deducted, and the details of the event are decided by that item
\* alone: empty when it lacks its product id or quantity, otherwise the one
\* entry naming its product, with product_not_found when the product is
\* missing and insufficient_stock (and the stock left by the items before
\* it) when the stock is short.  No item after it appears in the details.
C32_FirstFailingItem ==
    [][(WorkerHandles /\ worker'.msg # NotJsonMsg
           /\ worker'.key = StockDeductionFailedKey /\ NoDatabaseError(worker'))
       => LET items == worker'.msg.items
              details == worker'.body.details
          IN /\ Len(details) <= 1
             /\ \E i \in DOMAIN items :
                   /\ FirstFailing(items, stock_quantity, i)
                   /\ LET pid == items[i].product_id
                      IN IF ItemInvalid(items[i]) THEN details = <<>>
                         ELSE IF pid \notin DOMAIN stock_quantity
                         THEN details = <<Detail(pid, "product_not_found", NoValue)>>
                         ELSE details = <<Detail(pid, "insufficient_stock",
                                    stock_quantity[pid]
                                        - QtyOf(SubSeq(items, 1, i - 1), pid))>>]_vars

\* both items of the message fail (product 1 is short, the second item's
\* product does not exist): the event names product 1 only
C32_Witness ==
    /\ worker.pc = "ack"
    /\ worker.key = StockDeductionFailedKey
    /\ Len(worker.msg.items) = 2
    /\ worker.msg.items[1] = [product_id |-> 1, quantity |-> 2]
    /\ worker.msg.items[2].product_id = 2
    /\ worker.msg.items[2].quantity = 1
    /\ DOMAIN stock_quantity = {1}
    /\ stock_quantity[1] = 1
    /\ worker.body.details = <<Detail(1, "insufficient_stock", 1)>>

\* the result events the broker holds, and the one the worker is about to
\* publish or has just published
ResultsInBroker(q, w) ==
    Range(q[StockDeductedKey]) \cup Range(q[StockDeductionFailedKey])
        \cup (IF w.pc # "idle" THEN {w.body} ELSE {})

\* C33: the result event the worker builds carries the order id of the
\* order.placed message it took from its queue in that step; every
\* order.placed message and every result event in the broker names an order
\* whose write had committed before (the intake holds an event to publish
\* only for a committed order); so whenever the Reconciler finds no order for
\* a result event, that order had been committed and is no longer persisted:
\* it was deleted after it was placed.
C33_CausalOrder ==
    /\ [](/\ \A m \in PlacedInBroker(queue, worker) : m.order_id \in committed_ids
          /\ \A b \in ResultsInBroker(queue, worker) : b.order_id \in committed_ids
          /\ worker.pc # "idle" => worker.body.order_id = worker.msg.order_id
          /\ \A r \in ReqIds :
                requests[r].pc = "committed" => requests[r].order_id \in committed_ids
          /\ DOMAIN orders \subseteq committed_ids)
    /\ [][/\ WorkerHandles
                => /\ worker'.msg = Head(queue[OrderPlacedKey])
                   /\ worker'.body.order_id = worker'.msg.order_id
          /\ (ReconcilerStep /\ reconciled'.outcome = "non_existent_order")
                => /\ reconciled'.order_id \in committed_ids
                   /\ reconciled'.order_id \notin DOMAIN orders
                   /\ reconciled'.order_id < next_order_id
          /\ committed_ids \subseteq committed_ids'
          /\ \A o \in committed_ids' \ committed_ids :
                o \in DOMAIN orders' /\ o \notin DOMAIN orders]_vars

\* the Reconciler found no order for the result event of order 1, which had
\* been committed, placed, handled by the worker, and deleted meanwhile
C33_Witness ==
    /\ reconciled.outcome = "non_existent_order"
    /\ reconciled.order_id = 1
    /\ 1 \in committed_ids
    /\ orders = EmptyFn
    /\ order_items = {}
    /\ \E r \in ReqIds : requests[r].pc = "done" /\ requests[r].order_id = 1
                           /\ requests[r].code = 201

\* what the messages msgs ask of product p, all their items together
RECURSIVE DeductedQty(_, _)
DeductedQty(msgs, p) ==
    IF msgs = <<>> THEN 0
    ELSE QtyOf(Head(msgs).items, p) + DeductedQty(Tail(msgs), p)

\* C34: with every order.placed message delivered once and no endpoint
\* touching a product, at every moment and for every product p, the stock at
\* the start minus the committed stock of p is the sum of the quantities of p
\* over the items of the orders whose deduction the worker committed; these
\* are exactly the orders for which it built the product.stock.deducted
\* event.
C34_StockConservation ==
    /\ [](/\ ledger.on
          /\ DOMAIN stock_quantity = DOMAIN ledger.initial
          /\ \A p \in DOMAIN stock_quantity :
                ledger.initial[p] - stock_quantity[p] = DeductedQty(ledger.deducted, p))
    /\ [][/\ (WorkerHandles /\ worker'.key = StockDeductedKey)
                => ledger'.deducted = Append(ledger.deducted, worker'.msg)
          /\ ledger' # ledger
                => /\ WorkerHandles /\ worker'.key = StockDeductedKey
                   /\ ledger'.initial = ledger.initial]_vars

\* both orders were handled and their deductions committed: each took one
\* unit of product 1 (among their items), and product 1 went from 2 to 0
C34_Witness ==
    /\ Len(ledger.deducted) = 2
    /\ ledger.initial[1] = 2
    /\ stock_quantity[1] = 0
    /\ \A i \in 1..2 : QtyOf(ledger.deducted[i].items, 1) = 1
    /\ worker.pc = "idle"
    /\ queue[OrderPlacedKey] = <<>>

\* C36: a result event applied to a persisted order sets its status to
\* confirmed or failed whatever the status was; and a status patch for a
\* persisted order, the database working, sets the order's status to the
\* status asked for, whatever it was (pending, confirmed or failed).
C36_StatusOverwrites ==
    [][/\ (ReconcilerStep /\ reconciled'.outcome = "updated")
             => orders'[reconciled'.order_id].status
                   = (IF reconciled'.key = StockDeductedKey
                      THEN "confirmed" ELSE "failed")
       /\ (patch_answer' # patch_answer
              /\ patch_answer'.order_id \in DOMAIN orders /\ patch_answer'.db_ok)
             => /\ patch_answer'.code = 200
                /\ orders'[patch_answer'.order_id].status = patch_answer'.status]_vars

\* the orders whose committed deduction the ledger holds
LedgerOrders == {ledger.deducted[i].order_id : i \in DOMAIN ledger.deducted}

\* what the orders of S ask of product p, all their items together
RECURSIVE OrdersQty(_, _)
OrdersQty(S, p) ==
    IF S = {} THEN 0
    ELSE LET o == CHOOSE x \in S : TRUE
         IN QtyOf(ItemsOf(o, order_items), p) + OrdersQty(S \ {o}, p)

OrdersIn(st) == {o \in DOMAIN orders : orders[o].status = st}

\* C35: with every message delivered once and no status patch or deletion,
\* an order is confirmed only if the worker committed the deduction of the
\* message carrying all its items, and an order is failed only if the worker
\* committed no deduction for it; in stock: what was taken from each product
\* is at least what the confirmed orders ask of it and at most what the
\* orders that are not failed ask of it.
C35_StatusMatchesStock ==
    /\ \A o \in OrdersIn("confirmed") :
          \E i \in DOMAIN ledger.deducted :
             /\ ledger.deducted[i].order_id = o
             /\ ledger.deducted[i].items = ItemsOf(o, order_items)
    /\ \A o \in OrdersIn("failed") : o \notin LedgerOrders
    /\ \A p \in DOMAIN stock_quantity :
          /\ ledger.initial[p] - stock_quantity[p] >= OrdersQty(OrdersIn("confirmed"), p)
          /\ ledger.initial[p] - stock_quantity[p]
                <= OrdersQty(DOMAIN orders \ OrdersIn("failed"), p)

\* one order was confirmed after its two units of product 1 were taken, the
\* other failed for want of stock and took nothing
C35_Witness ==
    /\ orders[1].status = "confirmed"
    /\ orders[2].status = "failed"
    /\ QtyOf(ItemsOf(1, order_items), 1) = 2
    /\ QtyOf(ItemsOf(2, order_items), 1) >= 1
    /\ ledger.initial[1] = 2
    /\ stock_quantity[1] = 0
    /\ LedgerOrders = {1}

\* a step of a client or operator outside the saga
ExternalStep == CreateProduct \/ UpdateProduct \/ DeductStock \/ DeleteOrder

\* nothing of order o is in flight: no message names it in any queue, the
\* worker holds none, and the intake has no event of it left to publish
NothingInFlight(o, reqs, q, w) ==
    /\ \A k \in RoutingKeys : \A i \in DOMAIN q[k] :
          q[k][i] # NotJsonMsg => q[k][i].order_id # o
    /\ w.pc # "idle" => w.msg.order_id # o
    /\ \A r \in ReqIds : reqs[r].order_id = o => reqs[r].pc = "done"

\* the outcomes with which process_message drops a result event
DropOutcomes == {"non_existent_order", "database_error"}

\* C37: when the worker returns from a failed publish of
\* product.stock.deducted, the committed deduction and the orders stay as
\* they are and no queue receives anything; when the Reconciler drops a
\* result event (no such order, or a database error), no order and no stock
\* changes and the acknowledged event leaves its queue for no other; and once
\* nothing of an order is in flight, every step that is not a client's
\* (product create/update/deduct, order delete) leaves nothing of it in
\* flight, leaves its status what it was and raises no product's stock.
C37_NoCompensation ==
    [][/\ (WorkerPublishes /\ worker.key = StockDeductedKey /\ queue' = queue)
             => /\ stock_quantity' = stock_quantity
                /\ orders' = orders
       /\ ((ReconcilerStep \/ reconciled' # reconciled)
              /\ reconciled'.outcome \in DropOutcomes)
             => /\ stock_quantity' = stock_quantity
                /\ orders' = orders
                /\ \A k \in RoutingKeys \ {reconciled'.key} : queue'[k] = queue[k]
                /\ redelivered' = redelivered
                      => queue'[reconciled'.key] = Tail(queue[reconciled'.key])
       /\ \A o \in committed_ids :
             (NothingInFlight(o, requests, queue, worker) /\ ~ExternalStep)
             => /\ NothingInFlight(o, requests', queue', worker')
                /\ o \in DOMAIN orders
                      => /\ o \in DOMAIN orders'
                         /\ orders'[o].status = orders[o].status
                /\ DOMAIN stock_quantity' = DOMAIN stock_quantity
                /\ \A p \in DOMAIN stock_quantity :
                      stock_quantity'[p] <= stock_quantity[p]]_vars

\* the worker's success event for the persisted order was dropped by the
\* Reconciler on a database error: the order is pending, nothing of it is in
\* flight and the worker is idle
C37_Witness ==
    \E o \in committed_ids :
        /\ reconciled = [key |-> StockDeductedKey, order_id |-> o,
                         outcome |-> "database_error"]
        /\ o \in DOMAIN orders
        /\ orders[o].status = "pending"
        /\ NothingInFlight(o, requests, queue, worker)
        /\ worker.pc = "idle"
        /\ \A k \in RoutingKeys : queue[k] = <<>>

\* C38: a step of the worker's order.placed handler (its messages come from
\* Order Intake, every quantity >= 1) or of the deduct-stock endpoint
\* (quantity > 0) leaves every product with at most the stock it had; a step
\* that raises the stock of a product is a step of the product update
\* endpoint and a step that adds a product is one of the create endpoint;
\* so no step of the saga (intake, worker, Reconciler) gives stock back.
C38_StockNonIncreasing ==
    [][/\ (WorkerHandles \/ DeductStock)
             => /\ DOMAIN stock_quantity' = DOMAIN stock_quantity
                /\ \A p \in DOMAIN stock_quantity :
                      stock_quantity'[p] <= stock_quantity[p]
       /\ (\E p \in DOMAIN stock_quantity : stock_quantity'[p] > stock_quantity[p])
             => UpdateProduct
       /\ DOMAIN stock_quantity' # DOMAIN stock_quantity => CreateProduct]_vars

\* the worker has committed the deduction of an order that emptied the stock
\* of a product it asks for: the product had at least the quantity, >= 1
C38_Witness ==
    /\ worker.pc = "publish"
    /\ worker.key = StockDeductedKey
    /\ worker.msg.items # <<>>
    /\ \E i \in DOMAIN worker.msg.items :
          /\ worker.msg.items[i].quantity >= 1
          /\ stock_quantity[worker.msg.items[i].product_id] = 0

\* C39: whenever the worker handles an order.placed message and builds the
\* product.stock.deducted event, the message has at least one item and the
\* committed stock of at least one product went down in that step; a message
\* with no item list or an empty one gets no success event.
C39_SuccessOnlyAfterDecrement ==
    [][(WorkerHandles /\ worker'.key = StockDeductedKey)
          => /\ worker'.msg.items # <<>>
             /\ \E p \in DOMAIN stock_quantity :
                   stock_quantity'[p] < stock_quantity[p]]_vars

\* C40: the worker leaves the handling of a message only by its
\* acknowledgement step, taken once after the publish (or right after the
\* failed decoding), whatever the result was; during the handling the
\* message is out of its queue, and it comes back only when the
\* acknowledgement is lost in transit, never because the handling failed.
\* The Reconciler's handling of a delivery takes the event off the head of
\* its queue whatever the outcome (updated, no such order, undecodable, no
\* order id, database error) unless the acknowledgement is lost, and touches
\* no other queue: an event whose status update failed is gone.
C40_AckedOnce ==
    [][/\ WorkerHandles \/ (worker.pc = "idle" /\ worker'.pc = "ack")
             => queue'[OrderPlacedKey] = Tail(queue[OrderPlacedKey])
       /\ (worker.pc # "idle" /\ worker'.pc = "idle") => worker.pc = "ack"
       /\ (worker.pc = "publish" /\ worker' # worker)
             => /\ worker'.pc = "ack"
                /\ queue'[OrderPlacedKey] = queue[OrderPlacedKey]
                /\ redelivered' = redelivered
       /\ (worker.pc = "ack" /\ worker' # worker)
             => /\ worker' = IdleWorker
                /\ \/ queue' = queue /\ redelivered' = redelivered
                   \/ /\ redelivered' = redelivered + 1
                      /\ queue' = [queue EXCEPT ![OrderPlacedKey] = <<worker.msg>> \o @]
       /\ \A k \in ConsumerKeys("order") :
             (reconciled' # reconciled /\ reconciled'.key = k /\ queue[k] # <<>>)
             => /\ \A j \in RoutingKeys \ {k} : queue'[j] = queue[j]
                /\ \/ queue'[k] = Tail(queue[k]) /\ redelivered' = redelivered
                   \/ queue'[k] = queue[k] /\ redelivered' = redelivered + 1]_vars

\* the handling of an order.placed message ran into a database error: its
\* failure event is published, the message was acknowledged (the worker is
\* back to waiting) and is in no queue, and no acknowledgement was ever lost
C40_Witness ==
    /\ worker = IdleWorker
    /\ redelivered = 0
    /\ queue[OrderPlacedKey] = <<>>
    /\ queue[StockDeductedKey] = <<>>
    /\ queue[StockDeductionFailedKey] = <<ResultBody(1, "failed", DatabaseErrorDetails)>>
    /\ reconciled = NothingReconciled

====
